---- MODULE Spec2Model ----
(***************************************************************************)
(* HAZID workshop table (NHazid).  The application keeps one mutable list  *)
(* of hazards and a risk-matrix configuration, mutates them in event       *)
(* handlers, re-renders the table on a coalesced zero-delay timer and      *)
(* exports the list to a workbook whose cells are merged per cause,        *)
(* consequence and measure.                                                *)
(*                                                                         *)
(* State: state.hazards, state.riskMatrix, state.clipboard, the persisted  *)
(* document, the pending re-render timer, the rendered table with the      *)
(* heights alignSegments forces on it, and the workbook of an export in    *)
(* flight.  One action per handler; one specification per concern:         *)
(* SpecLayout, SpecRisk, SpecEdit, SpecAlign, SpecExport, SpecPersist,     *)
(* SpecImport, SpecSparse, SpecClone, SpecStale.                           *)
(***************************************************************************)
EXTENDS Integers, Sequences, FiniteSets, TLC

VARIABLES
    hazards,        \* state.hazards
    riskMatrix,     \* state.riskMatrix
    storage,        \* localStorage[STORAGE_KEY]: <<>> when absent, <<doc>> otherwise
    rerenderTimer,  \* the number of pending timeouts armed by scheduleSaveAndRerender
    clipboard,      \* state.clipboard: <<>> when null, <<[type, ownerType, data]>> otherwise
    generated,      \* the number of identifiers generateId has returned
    dom,            \* the table built by the latest renderTable, one entry per hazard
    surface,        \* what the browser measures with: viewport width and loaded fonts
    minHeight,      \* style.minHeight of the segments of dom, 0 for ''
    alignRequested, \* an animation frame callback of renderTable is pending
    sheet,          \* the 'HAZID' worksheet built by the exportToExcel call that just ran
    writing,        \* the workbook whose writeBuffer() is pending: <<>> or <<workbook>>
    download        \* what the step just taken showed the user: a file, an alert, or neither

vars == <<hazards, riskMatrix, storage, rerenderTimer, clipboard, generated, dom,
          surface, minHeight, alignRequested, sheet, writing, download>>

----------------------------------------------------------------------------
(* Bounds of the model *)

\* Causes, and consequences, of one hazard
MaxItems == 2
\* Measures of one cause or consequence
MaxMeasures == 2
\* Hazards, causes, consequences, measures and recommendations that the editing
\* handlers let the list hold at once
MaxNodes == 5
\* Identifiers generateId returns in one run, the four of the seed included
MaxGenerated == 5
\* Height of one line of content, in units, as the viewport or the fonts set it
MaxLineHeight == 2
\* Likelihood levels of an imported risk configuration
MaxImportLevels == 2
\* Identifiers generateId returns to the clicks on a table that may be stale
MaxClickIds == 1

----------------------------------------------------------------------------
(* Generic helpers *)

Max(a, b) == IF a >= b THEN a ELSE b
Max3(a, b, c) == Max(Max(a, b), c)

\* An optional value: JavaScript's undefined is None, a present value v is Some(v)
None == <<>>
Some(v) == <<v>>
IsSome(o) == o # <<>>
Get(o) == o[1]

\* What a step shows the user: nothing, the file of a workbook (a.click() on
\* the object URL of the buffer), or an alert
Quiet == [file |-> None, alert |-> ""]
File(workbook) == [file |-> Some(workbook), alert |-> ""]
Alert(message) == [file |-> None, alert |-> message]

\* Array.prototype.splice(i, 1) and splice(i, 0, x), with 1-based positions
RemoveAt(s, i) == [k \in 1..(Len(s) - 1) |-> IF k < i THEN s[k] ELSE s[k + 1]]
InsertAt(s, i, x) == [k \in 1..(Len(s) + 1) |-> IF k < i THEN s[k] ELSE IF k = i THEN x ELSE s[k - 1]]

RECURSIVE SumSeq(_)
SumSeq(s) == IF s = <<>> THEN 0 ELSE Head(s) + SumSeq(Tail(s))

----------------------------------------------------------------------------
(* Risk matrix configuration.  A level keeps the fields the handlers read   *)
(* (id, label; id, label, color); description texts are display-only.      *)

DefaultLikelihood ==
    << [id |-> "A", label |-> "A"], [id |-> "B", label |-> "B"],
       [id |-> "C", label |-> "C"], [id |-> "D", label |-> "D"],
       [id |-> "E", label |-> "E"] >>

DefaultSeverity ==
    << [id |-> "1", label |-> "1"], [id |-> "2", label |-> "2"],
       [id |-> "3", label |-> "3"], [id |-> "4", label |-> "4"],
       [id |-> "5", label |-> "5"] >>

DefaultRiskLevels ==
    << [id |-> "low", label |-> "Low", color |-> "#28a745"],
       [id |-> "medium", label |-> "Medium", color |-> "#ffc107"],
       [id |-> "high", label |-> "High", color |-> "#dc3545"] >>

\* The matrix key `${likelihoodId}-${severityId}`
Key(likelihoodId, severityId) == likelihoodId \o "-" \o severityId

\* matrix[key]: undefined (None) for a missing key
MatrixGet(matrix, key) == IF key \in DOMAIN matrix THEN matrix[key] ELSE None

\* riskLevels[k] for a 0-based k: undefined (None) past the end of the list
RiskLevelAt(riskLevels, k) ==
    IF k + 1 <= Len(riskLevels) THEN Some(riskLevels[k + 1]) ELSE None

\* riskSum / maxSum >= tenths / 10 in IEEE doubles: 0 / 0 is NaN, which compares
\* false; every other quotient of small integers compares as the exact ratio
RatioAtLeast(riskSum, maxSum, tenths) ==
    /\ maxSum # 0
    /\ 10 * riskSum >= tenths * maxSum

\* The level updateRiskMatrix assigns to likelihood index li and severity index si
\* (0-based) for lists of nLik and nSev levels
DefaultCellHighFirst(riskLevels, li, si, nLik, nSev) ==
    LET maxSum == (nLik - 1) + (nSev - 1)
    IN  IF RatioAtLeast(li + si, maxSum, 4) THEN RiskLevelAt(riskLevels, 1)
        ELSE IF RatioAtLeast(li + si, maxSum, 7) THEN RiskLevelAt(riskLevels, 2)
        ELSE RiskLevelAt(riskLevels, 0)

DefaultCell(riskLevels, li, si, nLik, nSev) ==
    LET riskSum == li + si
        maxSum == (nLik - 1) + (nSev - 1)
    IN  IF RatioAtLeast(riskSum, maxSum, 7) THEN RiskLevelAt(riskLevels, 2)
        ELSE IF RatioAtLeast(riskSum, maxSum, 4) THEN RiskLevelAt(riskLevels, 1)
        ELSE RiskLevelAt(riskLevels, 0)

\* matrix[key] = riskLevel
MatrixSet(matrix, key, riskLevel) ==
    [k \in DOMAIN matrix \cup {key} |-> IF k = key THEN riskLevel ELSE matrix[k]]

\* The two nested forEach loops of updateRiskMatrix from the n-th pair on
\* (0-based, likelihood outer, severity inner), assigning into `matrix`
RECURSIVE AssignCells(_, _, _)
AssignCells(rm, matrix, n) ==
    LET nLik == Len(rm.likelihood)
        nSev == Len(rm.severity)
        li == n \div nSev
        si == n % nSev
    IN  IF nSev = 0 \/ n >= nLik * nSev THEN matrix
        ELSE AssignCells(rm,
                 MatrixSet(matrix, Key(rm.likelihood[li + 1].id, rm.severity[si + 1].id),
                           DefaultCell(rm.riskLevels, li, si, nLik, nSev)),
                 n + 1)

\* updateRiskMatrix: the matrix is emptied and every (likelihood, severity) pair
\* is assigned in list order
UpdateRiskMatrix(rm) == [rm EXCEPT !.matrix = AssignCells(rm, <<>>, 0)]

\* The initial value of state.riskMatrix; its matrix is {} until init runs
InitialRiskMatrix ==
    [likelihood |-> DefaultLikelihood,
     severity |-> DefaultSeverity,
     severityDescriptions |-> "default",
     riskLevels |-> DefaultRiskLevels,
     matrix |-> <<>>]

\* The value a lookup raises instead of returning (a TypeError)
Raise == "TypeError"

ComputeRiskScoreUnguarded(rm, severityLevel, likelihoodLevel) ==
    IF severityLevel = "" \/ likelihoodLevel = "" THEN ""
    ELSE LET riskLevel == MatrixGet(rm.matrix, Key(likelihoodLevel, severityLevel))
         IN  IF IsSome(riskLevel) THEN Get(riskLevel).label ELSE Raise

\* computeRiskScore (getRiskLevel is the same function)
ComputeRiskScore(rm, severityLevel, likelihoodLevel) ==
    IF severityLevel = "" \/ likelihoodLevel = "" THEN ""
    ELSE LET riskLevel == MatrixGet(rm.matrix, Key(likelihoodLevel, severityLevel))
         IN  IF IsSome(riskLevel) THEN Get(riskLevel).label ELSE ""

\* getRiskLevelColor
GetRiskLevelColor(rm, severityLevel, likelihoodLevel) ==
    IF severityLevel = "" \/ likelihoodLevel = "" THEN ""
    ELSE LET riskLevel == MatrixGet(rm.matrix, Key(likelihoodLevel, severityLevel))
         IN  IF IsSome(riskLevel) THEN Get(riskLevel).color ELSE ""

----------------------------------------------------------------------------
(* Model factories.  generateId draws a random string; it is modelled as    *)
(* a value no earlier call has returned: the number of the call.            *)

MeasureIds(ms) == {ms[k].id : k \in 1..Len(ms)}
CauseIds(c) == {c.id} \cup MeasureIds(c.preventionMeasures)
ConsequenceIds(c) == {c.id} \cup MeasureIds(c.mitigationMeasures)
HazardIds(h) ==
    {h.id}
    \cup UNION {CauseIds(h.causes[i]) : i \in 1..Len(h.causes)}
    \cup UNION {ConsequenceIds(h.consequences[i]) : i \in 1..Len(h.consequences)}
    \cup {h.recommendations[i].id : i \in 1..Len(h.recommendations)}
IdsIn(hs) == UNION {HazardIds(hs[i]) : i \in 1..Len(hs)}

GenerateId == generated + 1

CreateHazard(id) ==
    [id |-> id, title |-> "", description |-> "",
     causes |-> <<>>, consequences |-> <<>>, recommendations |-> <<>>]
CreateCause(id) == [id |-> id, text |-> "", preventionMeasures |-> <<>>]
EmptyRisk == [severityCategory |-> "", severityLevel |-> "", likelihoodLevel |-> "", riskScore |-> ""]
CreateConsequence(id) == [id |-> id, text |-> "", mitigationMeasures |-> <<>>, risk |-> EmptyRisk]
CreateMeasure(id) == [id |-> id, text |-> ""]
CreateRecommendation(id) == [id |-> id, action |-> "", responsible |-> ""]

\* deepClone is JSON.parse(JSON.stringify(obj)): a value equal to its argument,
\* held in objects of its own, so that a write to the clone is not a write to
\* the original
DeepCloneSameObject(obj) == [object |-> obj, fresh |-> FALSE]

DeepClone(obj) == [object |-> obj, fresh |-> TRUE]

\* clone.id = generateId() on what deepClone returned: the clone afterwards, and
\* the original afterwards (written too when the clone is the same object)
Renewed(clone) == [clone.object EXCEPT !.id = GenerateId]

OriginalAfter(original, clone) == IF clone.fresh THEN original ELSE Renewed(clone)

\* Entities of the hazard list: what MaxNodes bounds
Nodes(hs) ==
    SumSeq([i \in 1..Len(hs) |->
        1 + Len(hs[i].causes) + Len(hs[i].consequences) + Len(hs[i].recommendations)
          + SumSeq([j \in 1..Len(hs[i].causes) |-> Len(hs[i].causes[j].preventionMeasures)])
          + SumSeq([j \in 1..Len(hs[i].consequences) |-> Len(hs[i].consequences[j].mitigationMeasures)])])

----------------------------------------------------------------------------
(* exportToExcel: the main worksheet.  The worksheet is one block per       *)
(* hazard; a block records the rows added for the hazard and every          *)
(* mergeAndSet call made for it, grouped by the loop that makes the call.   *)

\* reduce((sum, item) => sum + Math.max((item[key] || []).length, 1), 0) over
\* the first n items
RECURSIVE ReduceMeasures(_, _, _)
ReduceMeasures(items, key, n) ==
    IF n = 0 THEN 0
    ELSE ReduceMeasures(items, key, n - 1) + Max(Len(items[n][key]), 1)

TotalPreventionMeasures(hazard) ==
    ReduceMeasures(hazard.causes, "preventionMeasures", Len(hazard.causes))

TotalMitigationMeasures(hazard) ==
    ReduceMeasures(hazard.consequences, "mitigationMeasures", Len(hazard.consequences))

BlockRowsByItemCount(hazard) ==
    Max(Max(Len(hazard.causes), 1), Max(Len(hazard.consequences), 1))

\* blockRows of one hazard
BlockRows(hazard) ==
    Max3(TotalPreventionMeasures(hazard), TotalMitigationMeasures(hazard), 1)

\* The running row offset before item i, and the rows item i takes: its measure
\* count (at least 1), the last item of the list taking what is left of the block
RECURSIVE ItemRowOffset(_, _, _, _)
RECURSIVE ItemRows(_, _, _, _)

ItemRowOffset(items, key, blockRows, i) ==
    IF i = 1 THEN 0
    ELSE ItemRowOffset(items, key, blockRows, i - 1) + ItemRows(items, key, blockRows, i - 1)

ItemRowsNoExpansion(items, key, blockRows, i) ==
    Max(Len(items[i][key]), 1)

ItemRowsFirstExpands(items, key, blockRows, i) ==
    IF i = 1 THEN blockRows ELSE Max(Len(items[i][key]), 1)

ItemRows(items, key, blockRows, i) ==
    IF i = Len(items) THEN blockRows - ItemRowOffset(items, key, blockRows, i)
    ELSE Max(Len(items[i][key]), 1)

\* mergeAndSet(sheet, startRow, col, rowSpan, value): the cell written and the
\* range merged under it (merged only when it holds more than one row)
MergeAndSet(startRow, col, rowSpan, value) ==
    LET endRow == startRow + Max(rowSpan, 1) - 1
    IN  [row |-> startRow, col |-> col, endRow |-> endRow,
         merged |-> endRow > startRow, value |-> value]

MeasureRowsAllSingle(measures, itemRows, measureIndex) == 1

\* measureRows of the measure at 0-based measureIndex
MeasureRows(measures, itemRows, measureIndex) ==
    IF measureIndex = Len(measures) - 1 THEN itemRows - measureIndex ELSE 1

\* The measures.forEach of one item: one mergeAndSet per measure
MeasureCells(measures, itemStartRow, itemRows, col) ==
    [k \in 1..Len(measures) |->
        MergeAndSet(itemStartRow + (k - 1), col,
                    MeasureRows(measures, itemRows, k - 1), measures[k].text)]

\* consRowOffset and consRows as the colour pass derives them again
RiskFillOffset(consequences, blockRows, i) ==
    ItemRowOffset(consequences, "mitigationMeasures", blockRows, i)
RiskFillRowsNatural(consequences, blockRows, i) ==
    Max(Len(consequences[i].mitigationMeasures), 1)

RiskFillRows(consequences, blockRows, i) ==
    ItemRows(consequences, "mitigationMeasures", blockRows, i)

\* The colour pass for consequence i: the rows of column 9 it fills, none when
\* no colour resolves or the cached riskScore is empty
RiskFill(rm, consequences, startRow, blockRows, i) ==
    LET risk == consequences[i].risk
        consStartRow == startRow + RiskFillOffset(consequences, blockRows, i)
        riskColor == GetRiskLevelColor(rm, risk.severityLevel, risk.likelihoodLevel)
    IN  IF riskColor # "" /\ risk.riskScore # ""
        THEN [rows |-> consStartRow..(consStartRow + RiskFillRows(consequences, blockRows, i) - 1),
              color |-> riskColor]
        ELSE [rows |-> {}, color |-> ""]

\* The body of state.hazards.forEach for one hazard whose block starts at startRow
ExportBlock(rm, hazard, startRow) ==
    LET blockRows == BlockRows(hazard)
        causes == hazard.causes
        conss == hazard.consequences
        causeStartRow(i) == startRow + ItemRowOffset(causes, "preventionMeasures", blockRows, i)
        causeRows(i) == ItemRows(causes, "preventionMeasures", blockRows, i)
        consStartRow(i) == startRow + ItemRowOffset(conss, "mitigationMeasures", blockRows, i)
        consRows(i) == ItemRows(conss, "mitigationMeasures", blockRows, i)
    IN  [startRow |-> startRow,
         rowsAdded |-> blockRows,
         hazardCell |-> MergeAndSet(startRow, 1, blockRows,
             hazard.title \o (IF hazard.description # "" THEN "\n" \o hazard.description ELSE "")),
         causeCells |-> [i \in 1..Len(causes) |->
             MergeAndSet(causeStartRow(i), 2, causeRows(i), causes[i].text)],
         preventionCells |-> [i \in 1..Len(causes) |->
             MeasureCells(causes[i].preventionMeasures, causeStartRow(i), causeRows(i), 3)],
         consCells |-> [i \in 1..Len(conss) |->
             MergeAndSet(consStartRow(i), 4, consRows(i), conss[i].text)],
         mitigationCells |-> [i \in 1..Len(conss) |->
             MeasureCells(conss[i].mitigationMeasures, consStartRow(i), consRows(i), 5)],
         riskCells |-> [i \in 1..Len(conss) |->
             << MergeAndSet(consStartRow(i), 6, consRows(i), conss[i].risk.severityCategory),
                MergeAndSet(consStartRow(i), 7, consRows(i), conss[i].risk.severityLevel),
                MergeAndSet(consStartRow(i), 8, consRows(i), conss[i].risk.likelihoodLevel),
                MergeAndSet(consStartRow(i), 9, consRows(i), conss[i].risk.riskScore) >>],
         recoCell |-> MergeAndSet(startRow, 10, blockRows,
             [r \in 1..Len(hazard.recommendations) |->
                 <<hazard.recommendations[r].action, hazard.recommendations[r].responsible>>]),
         riskFills |-> [i \in 1..Len(conss) |-> RiskFill(rm, conss, startRow, blockRows, i)]]

\* currentRow before hazard h: row 1 is the header, each block follows the last
RECURSIVE CurrentRow(_, _)
CurrentRow(hs, h) ==
    IF h = 1 THEN 2 ELSE CurrentRow(hs, h - 1) + BlockRows(hs[h - 1])

\* The worksheet exportToExcel builds from the hazard list
ExportSheet(rm, hs) ==
    [h \in 1..Len(hs) |-> ExportBlock(rm, hs[h], CurrentRow(hs, h))]

----------------------------------------------------------------------------
(* renderTable: the on-screen table.  Each column of a hazard's row holds   *)
(* one segmented container: a CSS grid of gridRows equal tracks (1fr each)  *)
(* with one segment per track.                                              *)

\* A segment: its data-kind and data-seg-index (kind "" and index -1 when the
\* segment carries no dataset), what it shows, the nested measure stack of a
\* measures segment, and the text and background of a risk field
NoStack == [gridRows |-> 0, segments |-> <<>>]
Segment(kind, segIndex, widget, stack, text, color) ==
    [kind |-> kind, segIndex |-> segIndex, widget |-> widget,
     stack |-> stack, text |-> text, color |-> color]

SegmentedContainer(segmentCount, segments) ==
    [gridRows |-> Max(segmentCount, 1), segments |-> segments]

\* renderMeasureStack for an owner's measure list
RenderMeasureStack(measures) ==
    IF Len(measures) = 0
    THEN SegmentedContainer(Max(Len(measures), 1),
             << [widget |-> "add-measure", measureIndex |-> -1] >>)
    ELSE SegmentedContainer(Max(Len(measures), 1),
             [mi \in 1..Len(measures) |-> [widget |-> "measure", measureIndex |-> mi - 1]])

RenderCauseSegments(hazard) ==
    IF Len(hazard.causes) = 0
    THEN SegmentedContainer(1, << Segment("", -1, "add-cause", NoStack, "", "") >>)
    ELSE SegmentedContainer(Len(hazard.causes),
             [i \in 1..Len(hazard.causes) |->
                 Segment("cause", i - 1, "cause", NoStack, "", "")])

RenderCauseMeasuresSegments(hazard) ==
    IF Len(hazard.causes) = 0
    THEN SegmentedContainer(1, << Segment("", -1, "none", NoStack, "", "") >>)
    ELSE SegmentedContainer(Len(hazard.causes),
             [i \in 1..Len(hazard.causes) |->
                 Segment("cause-measures", i - 1, "measures",
                         RenderMeasureStack(hazard.causes[i].preventionMeasures), "", "")])

RenderConsequenceSegments(hazard) ==
    IF Len(hazard.consequences) = 0
    THEN SegmentedContainer(1, << Segment("", -1, "add-consequence", NoStack, "", "") >>)
    ELSE SegmentedContainer(Len(hazard.consequences),
             [i \in 1..Len(hazard.consequences) |->
                 Segment("consequence", i - 1, "consequence", NoStack, "", "")])

RenderConsequenceMeasuresSegments(hazard) ==
    IF Len(hazard.consequences) = 0
    THEN SegmentedContainer(1, << Segment("", -1, "none", NoStack, "", "") >>)
    ELSE SegmentedContainer(Len(hazard.consequences),
             [i \in 1..Len(hazard.consequences) |->
                 Segment("consequence-measures", i - 1, "measures",
                         RenderMeasureStack(hazard.consequences[i].mitigationMeasures), "", "")])

\* renderRiskField: the computed field shows the score just computed and its
\* colour; the other fields show a select holding the stored value
RenderRiskField(rm, risk, field, isComputed) ==
    IF isComputed
    THEN [text |-> ComputeRiskScore(rm, risk.severityLevel, risk.likelihoodLevel),
          color |-> GetRiskLevelColor(rm, risk.severityLevel, risk.likelihoodLevel)]
    ELSE [text |-> risk[field], color |-> ""]

RiskKind(field) ==
    IF field = "severityCategory" THEN "risk-sev-cat"
    ELSE IF field = "severityLevel" THEN "risk-sev"
    ELSE IF field = "likelihoodLevel" THEN "risk-like"
    ELSE "risk-score"

RenderRiskSegments(rm, hazard, field, isComputed) ==
    IF Len(hazard.consequences) = 0
    THEN SegmentedContainer(1, << Segment("", -1, "none", NoStack, "", "") >>)
    ELSE SegmentedContainer(Len(hazard.consequences),
             [i \in 1..Len(hazard.consequences) |->
                 LET f == RenderRiskField(rm, hazard.consequences[i].risk, field, isComputed)
                 IN  Segment(RiskKind(field), i - 1, "risk", NoStack, f.text, f.color)])

\* The objects the cells of one row show and their handlers close over, by id:
\* the hazard, its causes and its recommendations as they were when rendered
RowObjects(hazard) ==
    [hazard |-> hazard.id,
     causes |-> [i \in 1..Len(hazard.causes) |-> hazard.causes[i].id],
     recommendations |-> [i \in 1..Len(hazard.recommendations) |->
                             hazard.recommendations[i].id]]

\* The row renderTable builds for one hazard
RenderRow(rm, hazard) ==
    [objects |-> RowObjects(hazard),
     cause |-> RenderCauseSegments(hazard),
     causeMeasures |-> RenderCauseMeasuresSegments(hazard),
     consequence |-> RenderConsequenceSegments(hazard),
     consequenceMeasures |-> RenderConsequenceMeasuresSegments(hazard),
     riskSevCat |-> RenderRiskSegments(rm, hazard, "severityCategory", FALSE),
     riskSev |-> RenderRiskSegments(rm, hazard, "severityLevel", FALSE),
     riskLike |-> RenderRiskSegments(rm, hazard, "likelihoodLevel", FALSE),
     riskScore |-> RenderRiskSegments(rm, hazard, "riskScore", TRUE),
     recommendations |-> Len(hazard.recommendations)]

RenderTable(rm, hs) == [h \in 1..Len(hs) |-> RenderRow(rm, hs[h])]

----------------------------------------------------------------------------
(* alignSegments: the heights of paired segments.  The browser is reduced   *)
(* to what scrollHeight returns: the height of the segment's content, which *)
(* follows the viewport width and the loaded fonts, or the segment's        *)
(* min-height when that is larger.                                          *)

\* The columns of a row that hold a segmented container
SegmentColumns ==
    {"cause", "causeMeasures", "consequence", "consequenceMeasures",
     "riskSevCat", "riskSev", "riskLike", "riskScore"}

\* The surface at load: a wide viewport, fallback fonts
InitialSurface == [viewport |-> 1, fonts |-> 1]

\* Lines of content of a segment: a measure stack holds one line per track
Lines(seg) == IF seg.widget = "measures" THEN seg.stack.gridRows ELSE 1

\* Height of one line: the text of a cause or consequence wraps with the
\* viewport width, a measure line follows the font, a select keeps its height
LineHeight(seg, surf) ==
    IF seg.widget = "measures" THEN surf.fonts
    ELSE IF seg.widget = "risk" THEN 1
    ELSE surf.viewport

ContentHeight(seg, surf) == Lines(seg) * LineHeight(seg, surf)

\* el.scrollHeight of a segment whose style.minHeight is `forced`
ScrollHeight(seg, surf, forced) == Max(ContentHeight(seg, surf), forced)

\* el.style.minHeight = '' on every segment of the table d
NoForcedHeights(d) ==
    [h \in DOMAIN d |->
        [col \in SegmentColumns |-> [k \in DOMAIN d[h][col].segments |-> 0]]]

KeepForced(d, forced) == forced

\* The reset at the head of alignSegments
ClearForced(d, forced) == NoForcedHeights(d)

\* qsa(`.segment[data-hazard-index=h][data-kind=kind]`): the segments of
\* hazard h that carry the kind, by their index in the column that renders it
KindSegs(d, h, col, kind) ==
    SelectSeq([k \in DOMAIN d[h][col].segments |-> k],
              LAMBDA k : d[h][col].segments[k].kind = kind)

\* alignSegments(root) on the table d: the min-heights it leaves
AlignSegments(d, surf, forced) ==
    LET cleared == ClearForced(d, forced)
        Height(h, col, k) == ScrollHeight(d[h][col].segments[k], surf, cleared[h][col][k])
        causeSegs(h) == KindSegs(d, h, "cause", "cause")
        causeMeaSegs(h) == KindSegs(d, h, "causeMeasures", "cause-measures")
        consSegs(h) == KindSegs(d, h, "consequence", "consequence")
        Group(h) ==
            [consequence |-> consSegs(h),
             consequenceMeasures |-> KindSegs(d, h, "consequenceMeasures", "consequence-measures"),
             riskSevCat |-> KindSegs(d, h, "riskSevCat", "risk-sev-cat"),
             riskSev |-> KindSegs(d, h, "riskSev", "risk-sev"),
             riskLike |-> KindSegs(d, h, "riskLike", "risk-like"),
             riskScore |-> KindSegs(d, h, "riskScore", "risk-score")]
        \* target of the pair at position i
        PairTarget(h, i) ==
            Max(Height(h, "cause", causeSegs(h)[i]),
                Height(h, "causeMeasures", causeMeaSegs(h)[i]))
        \* target of the elements at position i, those that exist
        GroupHeights(h, i) ==
            {Height(h, col, Group(h)[col][i]) :
                col \in {c \in DOMAIN Group(h) : i <= Len(Group(h)[c])}}
        GroupTarget(h, i) == CHOOSE t \in GroupHeights(h, i) : \A u \in GroupHeights(h, i) : u <= t
        \* positions at which segment k of the column stands in its list
        Positions(list, k) == {i \in DOMAIN list : list[i] = k}
        Aligned(h, col, k) ==
            IF col = "cause" \/ col = "causeMeasures"
            THEN LET list == IF col = "cause" THEN causeSegs(h) ELSE causeMeaSegs(h)
                     at == {i \in Positions(list, k) :
                               i <= Len(causeSegs(h)) /\ i <= Len(causeMeaSegs(h))}
                 IN  IF at = {} THEN cleared[h][col][k]
                     ELSE PairTarget(h, CHOOSE i \in at : TRUE)
            ELSE LET at == {i \in Positions(Group(h)[col], k) : i <= Len(consSegs(h))}
                 IN  IF at = {} THEN cleared[h][col][k]
                     ELSE GroupTarget(h, CHOOSE i \in at : TRUE)
    IN  [h \in DOMAIN d |->
            [col \in SegmentColumns |->
                [k \in DOMAIN d[h][col].segments |-> Aligned(h, col, k)]]]

\* What rendering writes back: renderRiskField stores the score it computed in
\* risk.riskScore of every consequence
WithComputedScores(rm, hs) ==
    [h \in 1..Len(hs) |->
        [hs[h] EXCEPT !.consequences =
            [i \in 1..Len(hs[h].consequences) |->
                [hs[h].consequences[i] EXCEPT !.risk.riskScore =
                    ComputeRiskScore(rm, hs[h].consequences[i].risk.severityLevel,
                                         hs[h].consequences[i].risk.likelihoodLevel)]]]]

\* Hazards that came from a file may lack properties.  hazard.causes.length,
\* hazard.consequences.length and hazard.recommendations.forEach / .map throw
\* on a hazard that lacks the list
ListsMissing(hazard) ==
    ~({"causes", "consequences", "recommendations"} \subseteq DOMAIN hazard)

\* (owner[key] || []): a cause or consequence without its measure array is read
\* as one with an empty array; renderMeasureStack also stores the empty array
MeasuresOrEmpty(owner, key) ==
    IF key \in DOMAIN owner THEN owner
    ELSE [f \in DOMAIN owner \cup {key} |-> IF f = key THEN <<>> ELSE owner[f]]

CausesWithMeasureLists(hazard) ==
    [hazard EXCEPT !.causes =
        [i \in 1..Len(hazard.causes) |-> MeasuresOrEmpty(hazard.causes[i], "preventionMeasures")]]

ConsequencesWithMeasureLists(hazard) ==
    [hazard EXCEPT !.consequences =
        [i \in 1..Len(hazard.consequences) |->
            MeasuresOrEmpty(hazard.consequences[i], "mitigationMeasures")]]

\* Every hazard has its lists and every cause and consequence its measure array
ListsComplete(hs) ==
    \A h \in 1..Len(hs) :
        /\ ~ListsMissing(hs[h])
        /\ \A i \in 1..Len(hs[h].causes) : "preventionMeasures" \in DOMAIN hs[h].causes[i]
        /\ \A i \in 1..Len(hs[h].consequences) :
              "mitigationMeasures" \in DOMAIN hs[h].consequences[i]

\* The list with every missing measure array read as empty; hazards that lack
\* a list are left as they are, and so is a list that lacks nothing
WithMeasureLists(hs) ==
    IF ListsComplete(hs) THEN hs
    ELSE [h \in 1..Len(hs) |->
             IF ListsMissing(hs[h]) THEN hs[h]
             ELSE ConsequencesWithMeasureLists(CausesWithMeasureLists(hs[h]))]

\* renderTable, and the loop of exportToExcel over state.hazards, throw at the
\* first hazard that lacks a list
HazardListThrows(hs) == \E h \in 1..Len(hs) : ListsMissing(hs[h])

\* What rendering leaves in one hazard that lacks a list: the cause cells come
\* first (measure arrays of causes stored), then the consequence and risk
\* cells (measure arrays and scores stored), then the recommendations
PartlyRendered(rm, hazard) ==
    IF "causes" \notin DOMAIN hazard THEN hazard
    ELSE IF "consequences" \notin DOMAIN hazard THEN CausesWithMeasureLists(hazard)
    ELSE WithComputedScores(rm,
             << ConsequencesWithMeasureLists(CausesWithMeasureLists(hazard)) >>)[1]

\* state.hazards after renderTable: every hazard rendered, or the hazards up
\* to the one at which rendering threw
Rendered(rm, hs) ==
    IF ~HazardListThrows(hs) THEN WithComputedScores(rm, WithMeasureLists(hs))
    ELSE LET first == CHOOSE h \in 1..Len(hs) :
                          ListsMissing(hs[h]) /\ \A g \in 1..(h - 1) : ~ListsMissing(hs[g])
             before == WithComputedScores(rm, WithMeasureLists(SubSeq(hs, 1, first - 1)))
         IN  [h \in 1..Len(hs) |->
                 IF h < first THEN before[h]
                 ELSE IF h = first THEN PartlyRendered(rm, hs[h])
                 ELSE hs[h]]

----------------------------------------------------------------------------
(* Persistence and the coalesced re-render *)

\* persist.save({ hazards, riskMatrix, ... }): the document written under STORAGE_KEY
Saved(hs, rm) == Some([hazards |-> hs, riskMatrix |-> rm])

\* The text under STORAGE_KEY, by what JSON.parse makes of it: an array (the
\* legacy document), an object (what every save writes), or text it rejects
ArrayDoc(list) == [array |-> list]

Unparsable == [unparsable |-> TRUE]

\* The JSON value null, as a document and as an entry of a list
JSONNull == [null |-> TRUE]

\* persist.load: [] when the key is absent, when the text does not parse, and
\* when it parses to anything that is not an array
PersistLoad(stored) ==
    IF stored = None THEN <<>>
    ELSE IF "unparsable" \in DOMAIN Get(stored) THEN <<>>
    ELSE IF "array" \in DOMAIN Get(stored) THEN Get(stored).array
    ELSE <<>>

\* persist.save(data) on a store that takes the text (accepted) or whose
\* setItem throws: what is under the key afterwards, and whether the call threw
PersistSavePropagating(stored, data, accepted) ==
    [stored |-> IF accepted THEN Some(data) ELSE stored, thrown |-> ~accepted]

PersistSave(stored, data, accepted) ==
    [stored |-> IF accepted THEN Some(data) ELSE stored, thrown |-> FALSE]

\* scheduleSave with state.autosave on (its initial value)
ScheduleSave(hs, rm) ==
    storage' = PersistSave(storage, [hazards |-> hs, riskMatrix |-> rm], TRUE).stored

\* clearTimeout(rerenderTimer) on `pending` pending timeouts: the handle names
\* the timeout armed last, which is pending whenever any is (timeouts of equal
\* delay fire in the order they were armed); clearing a fired handle does nothing
ClearTimeoutIgnored(pending) == pending

ClearTimeout(pending) == IF pending > 0 THEN pending - 1 ELSE 0

\* A handler that saves and leaves the timer alone
ScheduleSaveOnly(hs, rm) ==
    /\ ScheduleSave(hs, rm)
    /\ UNCHANGED rerenderTimer

\* scheduleSaveAndRerender: save, cancel the pending timer, arm a new one
ScheduleSaveAndRerender(hs, rm) ==
    /\ ScheduleSave(hs, rm)
    /\ rerenderTimer' = ClearTimeout(rerenderTimer) + 1

\* scheduleSaveAndRerender on a store that may refuse the text: the statements
\* after scheduleSave() run unless the save threw
ScheduleSaveAndRerenderWith(hs, rm, accepted) ==
    LET saved == PersistSave(storage, [hazards |-> hs, riskMatrix |-> rm], accepted)
    IN  /\ storage' = saved.stored
        /\ rerenderTimer' = IF saved.thrown THEN rerenderTimer
                                             ELSE ClearTimeout(rerenderTimer) + 1

\* A handler of the hazard list: the list it leaves, saved, with a re-render
\* requested; the workbook of an earlier export is gone
Mutate(hs) ==
    /\ hazards' = hs
    /\ ScheduleSaveAndRerender(hs, riskMatrix)
    /\ sheet' = None
    /\ download' = Quiet
    /\ UNCHANGED <<riskMatrix, clipboard, generated, dom,
                   surface, minHeight, alignRequested, writing>>

\* A handler that puts one new object into the list: generateId has run once
MutateWithId(hs) ==
    /\ hazards' = hs
    /\ ScheduleSaveAndRerender(hs, riskMatrix)
    /\ sheet' = None
    /\ download' = Quiet
    /\ generated' = generated + 1
    /\ UNCHANGED <<riskMatrix, clipboard, dom,
                   surface, minHeight, alignRequested, writing>>

\* The buttons of the table are the ones renderTable built; the handlers of
\* table buttons below are modelled on a table that shows the current list,
\* that is while no re-render is pending; the Click handlers of SpecStale are
\* the same handlers on a table that may be stale
TableCurrent == rerenderTimer = 0

CanAdd(n) == Nodes(hazards) + n <= MaxNodes /\ generated < MaxGenerated

----------------------------------------------------------------------------
(* Initialization: init() on an empty store seeds one hazard, computes the  *)
(* default matrix and renders.                                              *)

SeedHazards ==
    << [CreateHazard(1) EXCEPT !.title = "New hazard",
                               !.causes = << CreateCause(2) >>,
                               !.consequences = << CreateConsequence(3) >>,
                               !.recommendations = << CreateRecommendation(4) >>] >>

Init ==
    /\ riskMatrix = UpdateRiskMatrix(InitialRiskMatrix)
    /\ hazards = WithComputedScores(riskMatrix, SeedHazards)
    /\ dom = RenderTable(riskMatrix, SeedHazards)
    /\ surface = InitialSurface
    /\ minHeight = NoForcedHeights(dom)
    /\ alignRequested = TRUE
    /\ storage = None
    /\ rerenderTimer = 0
    /\ clipboard = None
    /\ generated = 4
    /\ sheet = None
    /\ writing = None
    /\ download = Quiet

----------------------------------------------------------------------------
(* Handlers of the hazard list *)

\* #add-hazard
AddHazard ==
    /\ CanAdd(1)
    /\ MutateWithId(Append(hazards, CreateHazard(GenerateId)))

\* 'Add above' / 'Add below' of hazard h
AddHazardAbove(h) ==
    /\ TableCurrent /\ h \in DOMAIN dom /\ CanAdd(1)
    /\ MutateWithId(InsertAt(hazards, h, CreateHazard(GenerateId)))

AddHazardBelow(h) ==
    /\ TableCurrent /\ h \in DOMAIN dom /\ CanAdd(1)
    /\ MutateWithId(InsertAt(hazards, h + 1, CreateHazard(GenerateId)))

\* 'Duplicate': a deep clone with a new hazard id, inserted below
DuplicateHazard(h) ==
    /\ TableCurrent /\ h \in DOMAIN dom /\ CanAdd(Nodes(<<hazards[h]>>))
    /\ LET clone == DeepClone(hazards[h])
       IN  MutateWithId(InsertAt([hazards EXCEPT ![h] = OriginalAfter(@, clone)],
                                 h + 1, Renewed(clone)))

\* 'Remove hazard' / 'Remove'
RemoveHazard(h) ==
    /\ TableCurrent /\ h \in DOMAIN dom
    /\ Mutate(RemoveAt(hazards, h))

\* '+ Cause' / '+ Add cause'
AddCause(h) ==
    /\ TableCurrent /\ h \in DOMAIN dom /\ CanAdd(1)
    /\ MutateWithId([hazards EXCEPT ![h].causes =
                  Append(@, CreateCause(GenerateId))])

\* '+ Consequence' / '+ Add consequence'
AddConsequence(h) ==
    /\ TableCurrent /\ h \in DOMAIN dom /\ CanAdd(1)
    /\ MutateWithId([hazards EXCEPT ![h].consequences =
                  Append(@, CreateConsequence(GenerateId))])

\* 'Remove' of cause i
RemoveCause(h, i) ==
    /\ TableCurrent /\ h \in DOMAIN dom /\ i \in 1..Len(hazards[h].causes)
    /\ Mutate([hazards EXCEPT ![h].causes = RemoveAt(@, i)])

\* 'Remove' of consequence i
RemoveConsequence(h, i) ==
    /\ TableCurrent /\ h \in DOMAIN dom /\ i \in 1..Len(hazards[h].consequences)
    /\ Mutate([hazards EXCEPT ![h].consequences = RemoveAt(@, i)])

\* The measure list of an owner, and the hazard list with that list replaced
MeasureKey(ownerType) == IF ownerType = "cause" THEN "preventionMeasures" ELSE "mitigationMeasures"
OwnerKey(ownerType) == IF ownerType = "cause" THEN "causes" ELSE "consequences"
Owners(h, ownerType) == hazards[h][OwnerKey(ownerType)]
MeasuresOf(h, ownerType, i) == Owners(h, ownerType)[i][MeasureKey(ownerType)]
WithMeasures(h, ownerType, i, ms) ==
    [hazards EXCEPT ![h][OwnerKey(ownerType)][i][MeasureKey(ownerType)] = ms]

\* '+ Prevention measure' / '+ Mitigation measure' of an owner without measures
AddMeasure(h, ownerType, i) ==
    /\ TableCurrent /\ h \in DOMAIN dom /\ CanAdd(1)
    /\ i \in 1..Len(Owners(h, ownerType))
    /\ Len(MeasuresOf(h, ownerType, i)) = 0
    /\ MutateWithId(WithMeasures(h, ownerType, i,
                  Append(MeasuresOf(h, ownerType, i), CreateMeasure(GenerateId))))

\* '+ Insert below' of the measure at 0-based index mi
InsertMeasureBelow(h, ownerType, i, mi) ==
    /\ TableCurrent /\ h \in DOMAIN dom /\ CanAdd(1)
    /\ i \in 1..Len(Owners(h, ownerType))
    /\ mi \in 0..(Len(MeasuresOf(h, ownerType, i)) - 1)
    /\ MutateWithId(WithMeasures(h, ownerType, i,
                  InsertAt(MeasuresOf(h, ownerType, i), mi + 2, CreateMeasure(GenerateId))))

\* 'Remove' of the measure at 0-based index mi
RemoveMeasure(h, ownerType, i, mi) ==
    /\ TableCurrent /\ h \in DOMAIN dom
    /\ i \in 1..Len(Owners(h, ownerType))
    /\ mi \in 0..(Len(MeasuresOf(h, ownerType, i)) - 1)
    /\ Mutate(WithMeasures(h, ownerType, i, RemoveAt(MeasuresOf(h, ownerType, i), mi + 1)))

\* '+ Recommendation'
AddRecommendation(h) ==
    /\ TableCurrent /\ h \in DOMAIN dom /\ CanAdd(1)
    /\ MutateWithId([hazards EXCEPT ![h].recommendations =
                  Append(@, CreateRecommendation(GenerateId))])

\* 'Remove' of recommendation ri
RemoveRecommendation(h, ri) ==
    /\ TableCurrent /\ h \in DOMAIN dom /\ ri \in 1..Len(hazards[h].recommendations)
    /\ Mutate([hazards EXCEPT ![h].recommendations = RemoveAt(@, ri)])

\* #clear-all, confirmed
ClearAll == Mutate(<<>>)

----------------------------------------------------------------------------
(* Copy and paste *)

\* state.clipboard = { type, ownerType, data }; nothing is saved or rendered
SetClipboard(type, ownerType, data) ==
    /\ clipboard' = Some([type |-> type, ownerType |-> ownerType,
                          data |-> DeepClone(data).object])
    /\ sheet' = None
    /\ download' = Quiet
    /\ UNCHANGED <<hazards, riskMatrix, storage, rerenderTimer, generated,
                   dom, surface, minHeight, alignRequested, writing>>

\* 'Copy' of hazard h
CopyHazard(h) ==
    /\ TableCurrent /\ h \in DOMAIN dom
    /\ SetClipboard("hazard", "", hazards[h])

\* copyItem for a cause, a consequence, a measure and a recommendation
CopyCause(h, i) ==
    /\ TableCurrent /\ h \in DOMAIN dom /\ i \in 1..Len(hazards[h].causes)
    /\ SetClipboard("cause", "", hazards[h].causes[i])

CopyConsequence(h, i) ==
    /\ TableCurrent /\ h \in DOMAIN dom /\ i \in 1..Len(hazards[h].consequences)
    /\ SetClipboard("consequence", "", hazards[h].consequences[i])

CopyMeasure(h, ownerType, i, mi) ==
    /\ TableCurrent /\ h \in DOMAIN dom
    /\ i \in 1..Len(Owners(h, ownerType))
    /\ mi \in 0..(Len(MeasuresOf(h, ownerType, i)) - 1)
    /\ SetClipboard("measure", ownerType, MeasuresOf(h, ownerType, i)[mi + 1])

CopyRecommendation(h, ri) ==
    /\ TableCurrent /\ h \in DOMAIN dom /\ ri \in 1..Len(hazards[h].recommendations)
    /\ SetClipboard("recommendation", "", hazards[h].recommendations[ri])

\* The clipboard holds an item of this type (and owner type, for a measure)
Holds(type, ownerType) ==
    /\ clipboard # None
    /\ Get(clipboard).type = type
    /\ type = "measure" => Get(clipboard).ownerType = ownerType

\* The clone a paste inserts: the clipboard's data with a new id of its own
PasteClone == Renewed(DeepClone(Get(clipboard).data))

\* A paste handler: the list it leaves, saved, with a re-render requested;
\* generateId has run once, and the clipboard holds what the write of the id
\* left in clip.data
Paste(hs) ==
    /\ hazards' = hs
    /\ ScheduleSaveAndRerender(hs, riskMatrix)
    /\ sheet' = None
    /\ download' = Quiet
    /\ generated' = generated + 1
    /\ clipboard' = Some([Get(clipboard) EXCEPT
                             !.data = OriginalAfter(@, DeepClone(@))])
    /\ UNCHANGED <<riskMatrix, dom, surface, minHeight, alignRequested, writing>>

\* 'Paste' of hazard h: the clone goes below hazard h
PasteHazard(h) ==
    /\ TableCurrent /\ h \in DOMAIN dom
    /\ Holds("hazard", "") /\ CanAdd(Nodes(<<Get(clipboard).data>>))
    /\ Paste(InsertAt(hazards, h + 1, PasteClone))

\* pasteItem for a cause, a consequence, a measure and a recommendation
PasteCause(h, i) ==
    /\ TableCurrent /\ h \in DOMAIN dom /\ i \in 1..Len(hazards[h].causes)
    /\ Holds("cause", "") /\ CanAdd(1 + Len(Get(clipboard).data.preventionMeasures))
    /\ Paste([hazards EXCEPT ![h].causes = InsertAt(@, i + 1, PasteClone)])

PasteConsequence(h, i) ==
    /\ TableCurrent /\ h \in DOMAIN dom /\ i \in 1..Len(hazards[h].consequences)
    /\ Holds("consequence", "") /\ CanAdd(1 + Len(Get(clipboard).data.mitigationMeasures))
    /\ Paste([hazards EXCEPT ![h].consequences = InsertAt(@, i + 1, PasteClone)])

PasteMeasure(h, ownerType, i, mi) ==
    /\ TableCurrent /\ h \in DOMAIN dom
    /\ i \in 1..Len(Owners(h, ownerType))
    /\ mi \in 0..(Len(MeasuresOf(h, ownerType, i)) - 1)
    /\ Holds("measure", ownerType) /\ CanAdd(1)
    /\ Paste(WithMeasures(h, ownerType, i,
           InsertAt(MeasuresOf(h, ownerType, i), mi + 2, PasteClone)))

PasteRecommendation(h, ri) ==
    /\ TableCurrent /\ h \in DOMAIN dom /\ ri \in 1..Len(hazards[h].recommendations)
    /\ Holds("recommendation", "") /\ CanAdd(1)
    /\ Paste([hazards EXCEPT ![h].recommendations = InsertAt(@, ri + 1, PasteClone)])

----------------------------------------------------------------------------
(* Handlers of the risk fields *)

\* The options of a level select: the empty option and the ids of the list
Options(levels) == {""} \cup {levels[k].id : k \in 1..Len(levels)}

\* onchange of the severity-level select of consequence i
ChangeSeverityLevel(h, i, v) ==
    /\ TableCurrent /\ h \in DOMAIN dom /\ i \in 1..Len(hazards[h].consequences)
    /\ v \in Options(riskMatrix.severity)
    /\ v # hazards[h].consequences[i].risk.severityLevel
    /\ Mutate([hazards EXCEPT ![h].consequences[i].risk.severityLevel = v])

\* onchange of the likelihood-level select of consequence i
ChangeLikelihoodLevel(h, i, v) ==
    /\ TableCurrent /\ h \in DOMAIN dom /\ i \in 1..Len(hazards[h].consequences)
    /\ v \in Options(riskMatrix.likelihood)
    /\ v # hazards[h].consequences[i].risk.likelihoodLevel
    /\ Mutate([hazards EXCEPT ![h].consequences[i].risk.likelihoodLevel = v])

----------------------------------------------------------------------------
(* Handlers of the risk matrix configuration.  An imported configuration is *)
(* a parsed JSON object; an absent property is None.                        *)

\* loadDefaultRiskMatrix: the default lists, then updateRiskMatrix
LoadDefaultRiskMatrix == UpdateRiskMatrix(InitialRiskMatrix)

\* riskLevels.find(r => r.id === riskLevelId): the first match, or undefined
FindRiskLevel(riskLevels, riskLevelId) ==
    LET hits == {k \in 1..Len(riskLevels) : riskLevels[k].id = riskLevelId}
    IN  IF hits = {} THEN None
        ELSE Some(riskLevels[CHOOSE k \in hits : \A j \in hits : k <= j])

\* list.map(l => ({ id: l.id, ... })) throws on an entry that is null
MapThrows(list) == \E k \in DOMAIN list : list[k] = JSONNull

\* loadRiskMatrixFromJSON(data) throws: on the first property read when data is
\* null, or in the map over a list that holds null
LoadRiskMatrixThrows(data) ==
    \/ data = JSONNull
    \/ IsSome(data.likelihoodDescriptions) /\ MapThrows(Get(data.likelihoodDescriptions))
    \/ IsSome(data.riskLevelDescriptions) /\ MapThrows(Get(data.riskLevelDescriptions))

\* loadRiskMatrixFromJSON: the lists the document carries replace the current
\* ones (the severity list is never replaced); a document with a matrix assigns
\* the keys whose level id is found, any other document regenerates the matrix.
\* The statements run in order: when one throws, what the earlier ones assigned
\* stays in state.riskMatrix
LoadRiskMatrixFromJSON(rm, data) ==
    IF data = JSONNull THEN rm
    ELSE
    LET likelihoodThrows ==
            IsSome(data.likelihoodDescriptions) /\ MapThrows(Get(data.likelihoodDescriptions))
        withLikelihood ==
            IF IsSome(data.likelihoodDescriptions) /\ ~likelihoodThrows
            THEN [rm EXCEPT !.likelihood = Get(data.likelihoodDescriptions)] ELSE rm
        withDescriptions ==
            IF IsSome(data.severityDescriptions)
            THEN [withLikelihood EXCEPT !.severityDescriptions = Get(data.severityDescriptions)]
            ELSE withLikelihood
        levelsThrow ==
            IsSome(data.riskLevelDescriptions) /\ MapThrows(Get(data.riskLevelDescriptions))
        withLevels ==
            IF IsSome(data.riskLevelDescriptions) /\ ~levelsThrow
            THEN [withDescriptions EXCEPT !.riskLevels = Get(data.riskLevelDescriptions)]
            ELSE withDescriptions
    IN  IF likelihoodThrows THEN rm
        ELSE IF levelsThrow THEN withDescriptions
        ELSE IF IsSome(data.matrix)
        THEN LET m == Get(data.matrix)
                 found == {k \in DOMAIN m : IsSome(FindRiskLevel(withLevels.riskLevels, m[k]))}
             IN  [withLevels EXCEPT !.matrix =
                     [k \in found |-> FindRiskLevel(withLevels.riskLevels, m[k])]]
        ELSE UpdateRiskMatrix(withLevels)

\* { ...state.riskMatrix, ...data.riskMatrix }: the properties the document
\* carries replace the current ones
MergeRiskMatrix(rm, given) ==
    [f \in DOMAIN rm |-> IF IsSome(given[f]) THEN Get(given[f]) ELSE rm[f]]

\* The risk-level id written for a cell of the exported matrix
ExportedLevelLabel(riskLevel) == riskLevel.label

ExportedLevelId(riskLevel) == riskLevel.id

\* #export-risk-matrix: the configuration document offered for download; the
\* read of riskLevel.id raises for a cell that holds undefined, and then no
\* document is produced (None)
ExportRiskMatrixConfig(rm) ==
    IF \E k \in DOMAIN rm.matrix : ~IsSome(rm.matrix[k]) THEN None
    ELSE Some([likelihoodLevels |-> Len(rm.likelihood),
               likelihoodDescriptions |-> Some(rm.likelihood),
               severityDescriptions |-> Some(rm.severityDescriptions),
               riskLevels |-> Len(rm.riskLevels),
               riskLevelDescriptions |-> Some(rm.riskLevels),
               matrix |-> Some([k \in DOMAIN rm.matrix |-> ExportedLevelId(Get(rm.matrix[k]))])])

\* #load-default-matrix, confirmed
LoadDefaultMatrix ==
    /\ riskMatrix' = LoadDefaultRiskMatrix
    /\ ScheduleSaveAndRerender(hazards, riskMatrix')
    /\ sheet' = None
    /\ download' = Quiet
    /\ UNCHANGED <<hazards, clipboard, generated, dom,
                   surface, minHeight, alignRequested, writing>>

\* #import-risk-matrix with a file holding the configuration `data`: the
\* catch around loadRiskMatrixFromJSON reports a failure and skips the save and
\* the re-render; otherwise the success is announced
ImportRiskMatrix(data) ==
    /\ riskMatrix' = LoadRiskMatrixFromJSON(riskMatrix, data)
    /\ IF LoadRiskMatrixThrows(data)
       THEN /\ download' = Alert("Failed to import risk matrix JSON")
            /\ UNCHANGED <<storage, rerenderTimer>>
       ELSE /\ download' = Alert("Risk matrix imported successfully!")
            /\ ScheduleSaveAndRerender(hazards, riskMatrix')
    /\ sheet' = None
    /\ UNCHANGED <<hazards, clipboard, generated, dom,
                   surface, minHeight, alignRequested, writing>>

\* The try block of #import-json throws before it assigns anything: JSON.parse
\* on text that does not parse, data.hazards on null, and 'Invalid file format'
\* for a document that is no array and has no hazards
ImportJSONThrows(data) ==
    \/ "unparsable" \in DOMAIN data
    \/ "null" \in DOMAIN data
    \/ "hazards" \notin DOMAIN data

\* state.hazards when the handler of #import-json is done
HazardsClearedOnFailure(hs, data) == IF ImportJSONThrows(data) THEN <<>> ELSE data.hazards

HazardsAfterImport(hs, data) == IF ImportJSONThrows(data) THEN hs ELSE data.hazards

\* #import-json with a file holding `data`: a bare array replaces the hazard
\* list; an object with hazards replaces the list and, when it carries a risk
\* matrix, merges it into the current one and regenerates the matrix; any
\* other file is reported and nothing after the throw runs
ImportJSON(data) ==
    /\ hazards' = HazardsAfterImport(hazards, data)
    /\ IF ImportJSONThrows(data)
       THEN /\ download' = Alert("Failed to import JSON")
            /\ UNCHANGED <<riskMatrix, storage, rerenderTimer>>
       ELSE /\ riskMatrix' = IF data.isArray \/ ~IsSome(data.riskMatrix) THEN riskMatrix
                             ELSE UpdateRiskMatrix(MergeRiskMatrix(riskMatrix, Get(data.riskMatrix)))
            /\ ScheduleSaveAndRerender(hazards', riskMatrix')
            /\ download' = Quiet
    /\ sheet' = None
    /\ UNCHANGED <<clipboard, generated, dom,
                   surface, minHeight, alignRequested, writing>>

----------------------------------------------------------------------------
(* The timer and the export *)

\* The timer of scheduleSaveAndRerender fires: the container is emptied and the
\* table is rebuilt from the list as it is now; rendering stores every computed
\* risk score.  When renderTable throws, the table is never appended and no
\* animation frame is requested
RerenderTick ==
    /\ rerenderTimer > 0
    /\ rerenderTimer' = rerenderTimer - 1
    /\ hazards' = Rendered(riskMatrix, hazards)
    /\ IF HazardListThrows(hazards)
       THEN /\ dom' = <<>>
            /\ UNCHANGED alignRequested
       ELSE /\ dom' = RenderTable(riskMatrix, WithMeasureLists(hazards))
            /\ alignRequested' = TRUE
    /\ minHeight' = NoForcedHeights(dom')
    /\ sheet' = None
    /\ download' = Quiet
    /\ UNCHANGED <<riskMatrix, storage, clipboard, generated, surface, writing>>

\* What the export library does in one call of exportToExcel: whether
\* window.ExcelJS is there, whether building the summary and the recommendations
\* worksheet throws, and whether writeBuffer() resolves before any other
\* callback runs or stays pending
ExportOutcomes ==
    [library : BOOLEAN, summary : BOOLEAN, recommendations : BOOLEAN,
     write : {"resolved", "pending"}]

Unfailing == [library |-> TRUE, summary |-> TRUE, recommendations |-> TRUE, write |-> "resolved"]

\* The 'Risk Summary' worksheet: per hazard the rows of its consequences with
\* both levels set, the hazard title merged over them
SummarySheet(rm, hs) ==
    [h \in DOMAIN hs |->
        LET ranked == SelectSeq(hs[h].consequences,
                        LAMBDA c : c.risk.severityLevel # "" /\ c.risk.likelihoodLevel # "")
        IN  [title |-> IF Len(ranked) = 0 THEN ""
                       ELSE IF hs[h].title = "" THEN "Untitled Hazard" ELSE hs[h].title,
             merged |-> Len(ranked) > 1,
             rows |-> [k \in DOMAIN ranked |->
                 [text |-> IF ranked[k].text = "" THEN "Untitled Consequence" ELSE ranked[k].text,
                  severityCategory |-> ranked[k].risk.severityCategory,
                  severityLevel |-> ranked[k].risk.severityLevel,
                  likelihoodLevel |-> ranked[k].risk.likelihoodLevel,
                  riskLevel |-> ComputeRiskScore(rm, ranked[k].risk.severityLevel,
                                                     ranked[k].risk.likelihoodLevel),
                  color |-> GetRiskLevelColor(rm, ranked[k].risk.severityLevel,
                                                  ranked[k].risk.likelihoodLevel)]]]]

\* The 'Recommendations' worksheet: per hazard one row per recommendation
RecommendationsSheet(hs) ==
    [h \in DOMAIN hs |->
        LET recos == hs[h].recommendations
        IN  [title |-> IF Len(recos) = 0 THEN ""
                       ELSE IF hs[h].title = "" THEN "Untitled Hazard" ELSE hs[h].title,
             merged |-> Len(recos) > 1,
             rows |-> [k \in DOMAIN recos |-> <<recos[k].action, recos[k].responsible>>]]]

\* A worksheet the workbook holds complete, and one whose construction threw
Built(ws) == [status |-> "built", rows |-> ws]
Failed == [status |-> "failed", rows |-> <<>>]

\* The workbook without the inner try/catch blocks: a throwing worksheet ends
\* the export in the outer catch
BuildWorkbookUnguarded(rm, hs, outcome) ==
    IF outcome.summary /\ outcome.recommendations
    THEN Some([main |-> ExportSheet(rm, hs),
               summary |-> Built(SummarySheet(rm, hs)),
               recommendations |-> Built(RecommendationsSheet(hs))])
    ELSE None

\* The workbook as it stands when writeBuffer() is called: each auxiliary
\* worksheet is built inside a try/catch of its own
BuildWorkbook(rm, hs, outcome) ==
    Some([main |-> ExportSheet(rm, hs),
          summary |-> IF outcome.summary THEN Built(SummarySheet(rm, hs)) ELSE Failed,
          recommendations |-> IF outcome.recommendations
                              THEN Built(RecommendationsSheet(hs)) ELSE Failed])

\* writeBuffer() run on the live list: the main worksheet as the list is when
\* the buffer is written
WriteBufferFromState(workbook, rm, hs) == [workbook EXCEPT !.main = ExportSheet(rm, hs)]

\* workbook.xlsx.writeBuffer(): the cells hold the strings and numbers copied
\* into them while the worksheets were built
WriteBuffer(workbook, rm, hs) == workbook

\* #export-excel under the library behaviour `outcome`: without the library
\* an alert and nothing else; otherwise the workbook is built from
\* state.hazards and handed to writeBuffer(); nothing is written to the
\* application state.  A hazard that lacks a list throws in the main worksheet
\* and the outer catch reports the failure
ExportToExcelWith(outcome) ==
    LET workbook == IF HazardListThrows(hazards) THEN None
                    ELSE BuildWorkbook(riskMatrix, WithMeasureLists(hazards), outcome)
    IN  /\ IF ~outcome.library \/ workbook = None
           THEN /\ sheet' = None
                /\ download' = Alert(IF outcome.library THEN "Excel export failed"
                                     ELSE "Excel export library not loaded")
                /\ UNCHANGED writing
           ELSE /\ sheet' = Some(Get(workbook).main)
                /\ IF outcome.write = "resolved"
                   THEN /\ download' = File(WriteBuffer(Get(workbook), riskMatrix, hazards))
                        /\ UNCHANGED writing
                   ELSE /\ writing = None
                        /\ writing' = workbook
                        /\ download' = Quiet
        /\ UNCHANGED <<hazards, riskMatrix, storage, rerenderTimer, clipboard, generated,
                       dom, surface, minHeight, alignRequested>>

\* #export-excel with the library loaded, no throwing worksheet and a buffer
\* written before any other callback runs
ExportToExcel == ExportToExcelWith(Unfailing)

\* The pending writeBuffer() resolves: the file is handed to the browser
WriteBufferResolved ==
    /\ writing # None
    /\ download' = File(WriteBuffer(Get(writing), riskMatrix, hazards))
    /\ writing' = None
    /\ sheet' = None
    /\ UNCHANGED <<hazards, riskMatrix, storage, rerenderTimer, clipboard, generated,
                   dom, surface, minHeight, alignRequested>>

\* The pending writeBuffer() rejects: the outer catch alerts
WriteBufferRejected ==
    /\ writing # None
    /\ writing' = None
    /\ download' = Alert("Excel export failed")
    /\ sheet' = None
    /\ UNCHANGED <<hazards, riskMatrix, storage, rerenderTimer, clipboard, generated,
                   dom, surface, minHeight, alignRequested>>

\* blur of the hazard title input: nothing changes, a save and a re-render are
\* requested
BlurHazardTitle(h) ==
    /\ TableCurrent /\ h \in DOMAIN dom
    /\ ScheduleSaveAndRerender(hazards, riskMatrix)
    /\ sheet' = None
    /\ download' = Quiet
    /\ UNCHANGED <<hazards, riskMatrix, clipboard, generated,
                   dom, surface, minHeight, alignRequested, writing>>

\* oninput of the text input of cause i: the text is stored and saved; no
\* re-render is requested
InputCauseText(h, i, v) ==
    /\ TableCurrent /\ h \in DOMAIN dom /\ i \in 1..Len(hazards[h].causes)
    /\ v # hazards[h].causes[i].text
    /\ hazards' = [hazards EXCEPT ![h].causes[i].text = v]
    /\ ScheduleSave(hazards', riskMatrix)
    /\ sheet' = None
    /\ download' = Quiet
    /\ UNCHANGED <<riskMatrix, rerenderTimer, clipboard, generated,
                   dom, surface, minHeight, alignRequested, writing>>

\* The callback renderTable handed to requestAnimationFrame runs
AnimationFrame ==
    /\ alignRequested
    /\ minHeight' = AlignSegments(dom, surface, minHeight)
    /\ alignRequested' = FALSE
    /\ UNCHANGED <<hazards, riskMatrix, storage, rerenderTimer, clipboard, generated,
                   dom, surface, sheet, writing, download>>

\* The window is resized to a viewport of line height v: the resize listener
\* runs alignSegments
Resize(v) ==
    /\ surface' = [surface EXCEPT !.viewport = v]
    /\ minHeight' = AlignSegments(dom, surface', minHeight)
    /\ UNCHANGED <<hazards, riskMatrix, storage, rerenderTimer, clipboard, generated,
                   dom, alignRequested, sheet, writing, download>>

\* A font finishes loading and lines take height f: no listener is registered
FontsLoaded(f) ==
    /\ f # surface.fonts
    /\ surface' = [surface EXCEPT !.fonts = f]
    /\ UNCHANGED <<hazards, riskMatrix, storage, rerenderTimer, clipboard, generated,
                   dom, minHeight, alignRequested, sheet, writing, download>>

----------------------------------------------------------------------------
(* The layout of stored hazard lists.  init() takes a bare array found      *)
(* under STORAGE_KEY as the hazard list (the legacy format); the lists      *)
(* below are the arrays the store may hold, within MaxItems and             *)
(* MaxMeasures.                                                             *)

StoredMeasures(n, ownerId) == [k \in 1..n |-> [id |-> ownerId + k, text |-> ""]]

StoredCause(i, n) ==
    [id |-> 10 * i, text |-> "", preventionMeasures |-> StoredMeasures(n, 10 * i)]

RatedRisk ==
    [severityCategory |-> "personnel", severityLevel |-> "3",
     likelihoodLevel |-> "D", riskScore |-> ""]

StoredConsequence(i, n, rated) ==
    [id |-> 100 * i, text |-> "", mitigationMeasures |-> StoredMeasures(n, 100 * i),
     risk |-> IF rated THEN RatedRisk ELSE EmptyRisk]

StoredCauseLists ==
    UNION { { [i \in 1..len |-> StoredCause(i, f[i])] : f \in [1..len -> 0..MaxMeasures] }
            : len \in 0..MaxItems }

StoredConsequenceLists ==
    UNION { { [i \in 1..len |-> StoredConsequence(i, f[i], rated)] :
                f \in [1..len -> 0..MaxMeasures], rated \in BOOLEAN }
            : len \in 0..MaxItems }

StoredHazard(id, causes, consequences) ==
    [id |-> id, title |-> "", description |-> "",
     causes |-> causes, consequences |-> consequences, recommendations |-> <<>>]

\* One hazard of every shape, and every cause-only hazard followed by a second
\* hazard, whose block starts where the first one ends
StoredLists ==
    { <<>> }
    \cup { << StoredHazard(1, cs, qs) >> : cs \in StoredCauseLists, qs \in StoredConsequenceLists }
    \cup { << StoredHazard(1, cs, <<>>),
              StoredHazard(2, << StoredCause(5, 0), StoredCause(6, 1) >>,
                              << StoredConsequence(5, MaxMeasures, TRUE),
                                 StoredConsequence(6, 1, FALSE) >>) >>
           : cs \in StoredCauseLists }

\* The list init() works on: what persist.load returns (always an array, so
\* the saved.hazards branch is never taken), or the starter hazard when empty
InitHazards(stored) ==
    LET saved == PersistLoad(stored)
    IN  IF Len(saved) = 0 THEN SeedHazards ELSE saved

\* init() on a store holding `stored`
InitStored(stored) ==
    /\ riskMatrix = UpdateRiskMatrix(InitialRiskMatrix)
    /\ hazards = WithComputedScores(riskMatrix, InitHazards(stored))
    /\ dom = RenderTable(riskMatrix, InitHazards(stored))
    /\ surface = InitialSurface
    /\ minHeight = NoForcedHeights(dom)
    /\ alignRequested = TRUE
    /\ storage = stored
    /\ rerenderTimer = 0
    /\ clipboard = None
    /\ generated = IF Len(PersistLoad(stored)) = 0 THEN 4 ELSE 0
    /\ sheet = None
    /\ writing = None
    /\ download = Quiet

\* init() on a store holding the array `saved`
InitFrom(saved) == InitStored(Some(ArrayDoc(saved)))

InitLayout == \E saved \in StoredLists : InitFrom(saved)

NextLayout ==
    \/ \E h \in DOMAIN hazards : BlurHazardTitle(h)
    \/ RerenderTick
    \/ ExportToExcel

SpecLayout == InitLayout /\ [][NextLayout]_vars

----------------------------------------------------------------------------
(* Properties of the exported layout *)

\* The blocks of the worksheet just exported; block h belongs to hazards[h]
Exported == IsSome(sheet)
Block(h) == Get(sheet)[h]
Span(cell) == cell.endRow - cell.row + 1

NaturalSpan(measures) == IF Len(measures) > 1 THEN Len(measures) ELSE 1
PreventionTotal(hazard) ==
    SumSeq([i \in 1..Len(hazard.causes) |-> NaturalSpan(hazard.causes[i].preventionMeasures)])
MitigationTotal(hazard) ==
    SumSeq([i \in 1..Len(hazard.consequences) |-> NaturalSpan(hazard.consequences[i].mitigationMeasures)])

\* The item cells and the measure lists of the two sides of hazard h
Sides(h) ==
    { [cells |-> Block(h).causeCells, measureCells |-> Block(h).preventionCells,
       measures |-> [i \in 1..Len(hazards[h].causes) |-> hazards[h].causes[i].preventionMeasures]],
      [cells |-> Block(h).consCells, measureCells |-> Block(h).mitigationCells,
       measures |-> [i \in 1..Len(hazards[h].consequences) |-> hazards[h].consequences[i].mitigationMeasures]] }

\* C1: the rows exported for a hazard are max(preventionTotal, mitigationTotal, 1),
\* where each total sums max(measure count, 1) over the items of its side and is
\* 0 for an empty side; the row count is at least 1, and it is 1 for a hazard
\* with no cause and one consequence without measures
C1_RowCount ==
    Exported =>
        \A h \in DOMAIN hazards :
            LET p == PreventionTotal(hazards[h])
                m == MitigationTotal(hazards[h])
                rows == Block(h).rowsAdded
            IN  /\ rows >= p /\ rows >= m /\ rows >= 1
                /\ rows \in {p, m, 1}
                /\ Len(hazards[h].causes) = 0 => p = 0
                /\ Len(hazards[h].consequences) = 0 => m = 0
                /\ ( /\ Len(hazards[h].causes) = 0
                     /\ Len(hazards[h].consequences) = 1
                     /\ Len(hazards[h].consequences[1].mitigationMeasures) = 0 ) => rows = 1
                /\ Span(Block(h).hazardCell) = rows

\* A hazard without causes whose two consequences need three rows is exported
C1_Witness ==
    /\ Exported
    /\ \E h \in DOMAIN hazards :
        /\ Len(hazards[h].causes) = 0
        /\ Len(hazards[h].consequences) = 2
        /\ MitigationTotal(hazards[h]) = 3
        /\ Block(h).rowsAdded = 3

\* C2: on a non-empty side the item spans sum to the block's rows, every span is
\* at least 1, the first item starts at the block's first row and every later
\* item starts right after the one before it
C2_SpansTile ==
    Exported =>
        \A h \in DOMAIN hazards : \A side \in Sides(h) :
            LET cells == side.cells
                n == Len(cells)
            IN  n > 0 =>
                  /\ SumSeq([i \in 1..n |-> Span(cells[i])]) = Block(h).rowsAdded
                  /\ \A i \in 1..n : Span(cells[i]) >= 1
                  /\ cells[1].row = Block(h).startRow
                  /\ \A i \in 2..n : cells[i].row = cells[i - 1].endRow + 1
                  /\ cells[n].endRow = Block(h).startRow + Block(h).rowsAdded - 1

\* A side of two items is exported in a block the other side makes longer
C2_Witness ==
    /\ Exported
    /\ \E h \in DOMAIN hazards :
        /\ Len(hazards[h].causes) = 2
        /\ PreventionTotal(hazards[h]) < MitigationTotal(hazards[h])
        /\ Block(h).startRow > 2

\* C3: every item but the last of its side gets its natural span max(measure
\* count, 1); the last gets the block's rows less the rows given before it, at
\* least its natural span; the only item of a side gets the whole block
C3_LastItemExpands ==
    Exported =>
        \A h \in DOMAIN hazards : \A side \in Sides(h) :
            LET cells == side.cells
                n == Len(cells)
            IN  /\ \A i \in 1..(n - 1) : Span(cells[i]) = NaturalSpan(side.measures[i])
                /\ n > 0 =>
                     /\ Span(cells[n]) =
                            Block(h).rowsAdded - SumSeq([i \in 1..(n - 1) |-> Span(cells[i])])
                     /\ Span(cells[n]) >= NaturalSpan(side.measures[n])
                /\ n = 1 => Span(cells[1]) = Block(h).rowsAdded

\* The last of two causes is exported taller than its measures need
C3_Witness ==
    /\ Exported
    /\ \E h \in DOMAIN hazards :
        /\ Len(hazards[h].causes) = 2
        /\ Len(hazards[h].causes[1].preventionMeasures) = 2
        /\ Span(Block(h).causeCells[2]) > NaturalSpan(hazards[h].causes[2].preventionMeasures)

\* C4: in an item with measures, measure k (0-based) starts at the item's first
\* row plus k, every measure but the last spans one row, the last spans the
\* item's span less its index, so the measures tile the item; only the last
\* measure of the last item of a side spans more than one row
C4_MeasuresTileItem ==
    Exported =>
        \A h \in DOMAIN hazards : \A side \in Sides(h) :
            \A i \in 1..Len(side.cells) :
                LET item == side.cells[i]
                    ms == side.measureCells[i]
                    n == Len(ms)
                IN  /\ n = Len(side.measures[i])
                    /\ n > 0 =>
                         /\ \A k \in 1..n : ms[k].row = item.row + (k - 1)
                         /\ \A k \in 1..(n - 1) : Span(ms[k]) = 1
                         /\ Span(ms[n]) = Span(item) - (n - 1)
                         /\ SumSeq([k \in 1..n |-> Span(ms[k])]) = Span(item)
                         /\ ms[n].endRow = item.endRow
                         /\ \A k \in 1..n :
                               Span(ms[k]) > 1 => (k = n /\ i = Len(side.cells))

\* The last measure of the last cause is exported over more than one row, after
\* a measure of one row
C4_Witness ==
    /\ Exported
    /\ \E h \in DOMAIN hazards :
        LET n == Len(hazards[h].causes)
        IN  /\ n = 2
            /\ Len(Block(h).preventionCells[n]) = 2
            /\ Span(Block(h).preventionCells[n][1]) = 1
            /\ Span(Block(h).preventionCells[n][2]) > 1

\* The cells column `cells` shows in rows firstRow..lastRow: one per row, less
\* the rows each merged range of the column takes beyond its first
ColumnSlots(cells, firstRow, lastRow) ==
    (lastRow - firstRow + 1) - SumSeq([k \in 1..Len(cells) |-> cells[k].endRow - cells[k].row])

\* The measure stacks renderTable built for the two sides of hazard h
Stacks(h) ==
    { [segments |-> dom[h].causeMeasures.segments,
       measures |-> [i \in 1..Len(hazards[h].causes) |-> hazards[h].causes[i].preventionMeasures]],
      [segments |-> dom[h].consequenceMeasures.segments,
       measures |-> [i \in 1..Len(hazards[h].consequences) |-> hazards[h].consequences[i].mitigationMeasures]] }

MeasureCounts ==
    [h \in DOMAIN hazards |->
        << [i \in 1..Len(hazards[h].causes) |-> Len(hazards[h].causes[i].preventionMeasures)],
           [i \in 1..Len(hazards[h].consequences) |-> Len(hazards[h].consequences[i].mitigationMeasures)] >>]

\* On screen an item without measures shows one slot, the add button, filling
\* its measures segment
ScreenPlaceholder ==
    TableCurrent =>
        \A h \in DOMAIN hazards : \A side \in Stacks(h) :
            \A i \in 1..Len(side.measures) :
                Len(side.measures[i]) = 0 =>
                    /\ side.segments[i].segIndex = i - 1
                    /\ side.segments[i].stack.gridRows = 1
                    /\ Len(side.segments[i].stack.segments) = 1
                    /\ side.segments[i].stack.segments[1].widget = "add-measure"

\* In the workbook an item without measures shows one cell in the measure
\* column over the item's rows
SheetPlaceholder ==
    Exported =>
        \A h \in DOMAIN hazards : \A side \in Sides(h) :
            \A i \in 1..Len(side.cells) :
                Len(side.measures[i]) = 0 =>
                    ColumnSlots(side.measureCells[i], side.cells[i].row, side.cells[i].endRow) = 1

\* C5: for an item without measures both renderers show, in the measure column,
\* one slot over the item's whole row range, and neither rendering nor
\* exporting adds a measure to the hazard list
C5_PlaceholderSlot ==
    /\ [](ScreenPlaceholder /\ SheetPlaceholder)
    /\ [][(RerenderTick \/ ExportToExcel) => MeasureCounts' = MeasureCounts]_vars

\* C6: the four risk cells of a consequence take the consequence's first row and
\* span, and the colour pass fills exactly those rows of the risk column
\* whenever it colours the consequence
C6_RiskCellsFollowConsequence ==
    Exported =>
        \A h \in DOMAIN hazards : \A i \in 1..Len(hazards[h].consequences) :
            LET cons == Block(h).consCells[i]
                fill == Block(h).riskFills[i]
                risk == hazards[h].consequences[i].risk
            IN  /\ \A k \in 1..4 :
                     /\ Block(h).riskCells[i][k].row = cons.row
                     /\ Block(h).riskCells[i][k].endRow = cons.endRow
                     /\ Block(h).riskCells[i][k].col = 5 + k
                /\ fill.rows \in {{}, cons.row..cons.endRow}
                /\ (risk.riskScore # "" /\ fill.color # "") => fill.rows = cons.row..cons.endRow

\* A rated last consequence, taller than its measures need, is exported coloured
C6_Witness ==
    /\ Exported
    /\ \E h \in DOMAIN hazards :
        LET n == Len(hazards[h].consequences)
        IN  /\ n = 2
            /\ Span(Block(h).consCells[n]) > NaturalSpan(hazards[h].consequences[n].mitigationMeasures)
            /\ Block(h).riskFills[n].color = "#ffc107"
            /\ Cardinality(Block(h).riskFills[n].rows) = Span(Block(h).consCells[n])
            /\ Block(h).riskCells[n][4].value = "Medium"

\* Segment i (1-based) of a container of equal tracks and a cell of the block
\* take the same share of the block: the same start and the same extent
SameShare(i, tracks, cell, block) ==
    /\ (i - 1) * block.rowsAdded = (cell.row - block.startRow) * tracks
    /\ block.rowsAdded = Span(cell) * tracks

\* C7: every cause, consequence and measure takes on screen the share of the
\* hazard's block that its merged range takes in the workbook
C7_ScreenMatchesExport ==
    (Exported /\ TableCurrent) =>
        \A h \in DOMAIN hazards :
            /\ \A i \in 1..Len(hazards[h].causes) :
                 /\ SameShare(i, dom[h].cause.gridRows, Block(h).causeCells[i], Block(h))
                 /\ \A k \in 1..Len(hazards[h].causes[i].preventionMeasures) :
                      SameShare((i - 1) * dom[h].causeMeasures.segments[i].stack.gridRows + k,
                                dom[h].causeMeasures.gridRows * dom[h].causeMeasures.segments[i].stack.gridRows,
                                Block(h).preventionCells[i][k], Block(h))
            /\ \A i \in 1..Len(hazards[h].consequences) :
                 /\ SameShare(i, dom[h].consequence.gridRows, Block(h).consCells[i], Block(h))
                 /\ \A k \in 1..Len(hazards[h].consequences[i].mitigationMeasures) :
                      SameShare((i - 1) * dom[h].consequenceMeasures.segments[i].stack.gridRows + k,
                                dom[h].consequenceMeasures.gridRows * dom[h].consequenceMeasures.segments[i].stack.gridRows,
                                Block(h).mitigationCells[i][k], Block(h))

----------------------------------------------------------------------------
(* The risk fields and the risk matrix configuration: init() on an empty    *)
(* store, the level selects of the seeded consequence, the configuration    *)
(* buttons with files from the sets below, the timer and the export.        *)

\* The values picked in the level selects, among the options the select offers
SeverityChoices == {"", "3", "5"}
LikelihoodChoices == {"", "D", "E"}

\* The ids of imported likelihood levels, in the order of the file
ImportedLevelIds == << "E", "D", "C", "B", "A" >>
ImportedLikelihood(n) ==
    [k \in 1..n |-> [id |-> ImportedLevelIds[k], label |-> ImportedLevelIds[k]]]

\* A file with two risk levels: the list has no level at ordinal 2
ImportedRiskLevels ==
    << [id |-> "low", label |-> "Acceptable", color |-> "#00ff00"],
       [id |-> "high", label |-> "Intolerable", color |-> "#ff0000"] >>

\* A file's matrix: key -> risk level id; "extreme" names no level
ImportedMatrix == [k \in {"D-3", "E-5"} |-> IF k = "D-3" THEN "high" ELSE "extreme"]

RiskMatrixDocs ==
    { [likelihoodDescriptions |-> l, severityDescriptions |-> None,
       riskLevelDescriptions |-> r, matrix |-> m] :
        l \in {None} \cup { Some(ImportedLikelihood(n)) : n \in 1..MaxImportLevels },
        r \in {None, Some(ImportedRiskLevels)},
        m \in {None, Some(ImportedMatrix)} }

\* The hazard list of an imported file: one hazard with a rated consequence
ImportedHazards ==
    << StoredHazard(1, << StoredCause(1, 0) >>, << StoredConsequence(1, 0, TRUE) >>) >>

\* The riskMatrix property of an imported file: one likelihood level and one
\* severity level, so that the largest index sum is 0
ImportedSingleLevels ==
    [likelihood |-> Some(ImportedLikelihood(1)),
     severity |-> Some(<< [id |-> "3", label |-> "3"] >>),
     severityDescriptions |-> None, riskLevels |-> None, matrix |-> None]

JSONDocs ==
    { [isArray |-> TRUE, hazards |-> ImportedHazards, riskMatrix |-> None],
      [isArray |-> FALSE, hazards |-> ImportedHazards, riskMatrix |-> None],
      [isArray |-> FALSE, hazards |-> ImportedHazards, riskMatrix |-> Some(ImportedSingleLevels)] }

\* The file #export-risk-matrix writes in the current state, when it writes one
ExportedNow ==
    IF IsSome(ExportRiskMatrixConfig(riskMatrix))
    THEN {Get(ExportRiskMatrixConfig(riskMatrix))} ELSE {}

NextRisk ==
    \/ \E h \in DOMAIN hazards : \E i \in 1..Len(hazards[h].consequences) :
         \E v \in SeverityChoices : ChangeSeverityLevel(h, i, v)
    \/ \E h \in DOMAIN hazards : \E i \in 1..Len(hazards[h].consequences) :
         \E v \in LikelihoodChoices : ChangeLikelihoodLevel(h, i, v)
    \/ LoadDefaultMatrix
    \/ \E data \in RiskMatrixDocs : ImportRiskMatrix(data)
    \/ \E data \in ExportedNow : ImportRiskMatrix(data)
    \/ \E data \in JSONDocs : ImportJSON(data)
    \/ RerenderTick
    \/ ExportToExcel

SpecRisk == Init /\ [][NextRisk]_vars

----------------------------------------------------------------------------
(* Properties of the risk fields *)

\* Every stored score of the list hs is the evaluator's label under rm
ScoresEvaluated(hs, rm) ==
    \A h \in 1..Len(hs) : \A i \in 1..Len(hs[h].consequences) :
        LET risk == hs[h].consequences[i].risk
        IN  risk.riskScore = ComputeRiskScore(rm, risk.severityLevel, risk.likelihoodLevel)

\* C8: the risk score written to the store, and the one written to the
\* workbook, is the evaluator's label for the consequence's levels under the
\* mapping written with it
C8_StoredScoreIsEvaluated ==
    /\ IsSome(storage) => ScoresEvaluated(Get(storage).hazards, Get(storage).riskMatrix)
    /\ Exported =>
         \A h \in DOMAIN hazards : \A i \in 1..Len(hazards[h].consequences) :
            LET risk == hazards[h].consequences[i].risk
            IN  Block(h).riskCells[i][4].value =
                    ComputeRiskScore(riskMatrix, risk.severityLevel, risk.likelihoodLevel)

\* The levels a resolution may be asked for: the options of the selects, the
\* levels of the default lists and a level no list holds
AskedSeverities == Options(riskMatrix.severity) \cup Options(DefaultSeverity) \cup {"9"}
AskedLikelihoods == Options(riskMatrix.likelihood) \cup Options(DefaultLikelihood) \cup {"Z"}

\* The mapping has a cell for the pair
Mapped(rm, severityLevel, likelihoodLevel) ==
    /\ Key(likelihoodLevel, severityLevel) \in DOMAIN rm.matrix
    /\ IsSome(rm.matrix[Key(likelihoodLevel, severityLevel)])

\* C9: resolving the label or the colour gives the empty string when a level is
\* unset or the mapping has no cell for the pair, the mapped level's label and
\* colour otherwise, and never raises
C9_ResolveIsTotal ==
    \A s \in AskedSeverities : \A l \in AskedLikelihoods :
        LET label == ComputeRiskScore(riskMatrix, s, l)
            color == GetRiskLevelColor(riskMatrix, s, l)
        IN  /\ label # Raise /\ color # Raise
            /\ (s = "" \/ l = "" \/ ~Mapped(riskMatrix, s, l)) => (label = "" /\ color = "")
            /\ (s # "" /\ l # "" /\ Mapped(riskMatrix, s, l)) =>
                 /\ label = Get(riskMatrix.matrix[Key(l, s)]).label
                 /\ color = Get(riskMatrix.matrix[Key(l, s)]).color

\* The table shows a consequence with both levels set and no cell for the
\* pair: its score is empty and unstyled; another mapping resolves to a level
C9_Witness ==
    /\ TableCurrent
    /\ \E h \in DOMAIN hazards : \E i \in 1..Len(hazards[h].consequences) :
        LET risk == hazards[h].consequences[i].risk
        IN  /\ risk.severityLevel # "" /\ risk.likelihoodLevel # ""
            /\ ~Mapped(riskMatrix, risk.severityLevel, risk.likelihoodLevel)
            /\ dom[h].riskScore.segments[i].text = ""
            /\ dom[h].riskScore.segments[i].color = ""
    /\ \E s \in AskedSeverities : \E l \in AskedLikelihoods : Mapped(riskMatrix, s, l)

\* The ordinal the default rule gives index sum riskSum out of maxSum
RuleOrdinal(riskSum, maxSum) ==
    IF maxSum # 0 /\ 10 * riskSum >= 7 * maxSum THEN 2
    ELSE IF maxSum # 0 /\ 10 * riskSum >= 4 * maxSum THEN 1
    ELSE 0

\* Every cell of rm holds the level at the rule's ordinal for its indices
FollowsDefaultRule(rm) ==
    \A li \in 1..Len(rm.likelihood) : \A si \in 1..Len(rm.severity) :
        LET key == Key(rm.likelihood[li].id, rm.severity[si].id)
            ordinal == RuleOrdinal((li - 1) + (si - 1),
                                   (Len(rm.likelihood) - 1) + (Len(rm.severity) - 1))
        IN  /\ key \in DOMAIN rm.matrix
            /\ rm.matrix[key] = IF ordinal < Len(rm.riskLevels)
                                THEN Some(rm.riskLevels[ordinal + 1]) ELSE None

\* An import of a configuration that carries its own matrix
ImportsMatrix == \E data \in RiskMatrixDocs : IsSome(data.matrix) /\ ImportRiskMatrix(data)

\* A step that regenerates the mapping by the default rule: every step that
\* writes state.riskMatrix ends with updateRiskMatrix, but for the import of a
\* configuration that carries its own matrix
Regenerates == riskMatrix' # riskMatrix /\ ~ImportsMatrix

DefaultLists(rm) ==
    /\ rm.likelihood = DefaultLikelihood
    /\ rm.severity = DefaultSeverity
    /\ rm.riskLevels = DefaultRiskLevels

\* C10: after init and after every regenerating step each cell holds the level
\* at ordinal 2 when the index ratio is at least 0.7, at ordinal 1 when it is
\* at least 0.4, at ordinal 0 otherwise; with the default lists 'D' and '3'
\* resolve to medium
C10_DefaultRule ==
    /\ FollowsDefaultRule(riskMatrix)
    /\ ComputeRiskScore(riskMatrix, "3", "D") = "Medium"
    /\ [][Regenerates =>
            /\ FollowsDefaultRule(riskMatrix')
            /\ DefaultLists(riskMatrix') =>
                 /\ ComputeRiskScore(riskMatrix', "3", "D") = "Medium"
                 /\ riskMatrix'.matrix["D-3"] = Some(DefaultRiskLevels[2])]_vars

\* A regenerated mapping over imported likelihood levels holds cells of all
\* three ordinals
C10_Witness ==
    /\ riskMatrix.likelihood = ImportedLikelihood(2)
    /\ riskMatrix.riskLevels = DefaultRiskLevels
    /\ riskMatrix.matrix = UpdateRiskMatrix(riskMatrix).matrix
    /\ \A k \in 1..3 : \E key \in DOMAIN riskMatrix.matrix :
          riskMatrix.matrix[key] = Some(DefaultRiskLevels[k])

\* The keys of the (likelihood id, severity id) pairs of the lists of rm
PairKeys(rm) ==
    { Key(rm.likelihood[li].id, rm.severity[si].id) :
        li \in 1..Len(rm.likelihood), si \in 1..Len(rm.severity) }

\* C11: every step that changes the likelihood list or the severity list leaves
\* a mapping regenerated by the default rule, with exactly one cell per
\* (likelihood id, severity id) of the new lists
C11_ListChangeRegenerates ==
    [][(riskMatrix'.likelihood # riskMatrix.likelihood
            \/ riskMatrix'.severity # riskMatrix.severity) =>
         /\ DOMAIN riskMatrix'.matrix = PairKeys(riskMatrix')
         /\ FollowsDefaultRule(riskMatrix')]_vars

\* C12: an import that carries a matrix changes only the cells it names: a named
\* cell whose level id resolves takes that level, a named cell whose id does
\* not resolve is dropped, and every other cell keeps the level it had
C12_ImportOverridesNamedCells ==
    [][\A data \in RiskMatrixDocs :
         (IsSome(data.matrix) /\ ImportRiskMatrix(data)) =>
            LET named == Get(data.matrix)
                level(k) == FindRiskLevel(riskMatrix'.riskLevels, named[k])
            IN  /\ \A k \in DOMAIN named :
                     IF IsSome(level(k))
                     THEN k \in DOMAIN riskMatrix'.matrix /\ riskMatrix'.matrix[k] = level(k)
                     ELSE k \notin DOMAIN riskMatrix'.matrix
                /\ \A k \in DOMAIN riskMatrix.matrix \ DOMAIN named :
                     /\ k \in DOMAIN riskMatrix'.matrix
                     /\ riskMatrix'.matrix[k] = riskMatrix.matrix[k]]_vars

\* C13: importing the document that the export writes for the current
\* configuration leaves every (likelihood id, severity id) cell resolving to a
\* level with the same id, label and colour, and leaves the lists as they were
C13_ExportImportRoundTrip ==
    \A data \in ExportedNow :
        LET back == LoadRiskMatrixFromJSON(riskMatrix, data)
        IN  /\ \A k \in PairKeys(riskMatrix) \cup DOMAIN riskMatrix.matrix :
                 MatrixGet(back.matrix, k) = MatrixGet(riskMatrix.matrix, k)
            /\ back.likelihood = riskMatrix.likelihood
            /\ back.riskLevels = riskMatrix.riskLevels
            /\ \A s \in AskedSeverities : \A l \in AskedLikelihoods :
                 /\ ComputeRiskScore(back, s, l) = ComputeRiskScore(riskMatrix, s, l)
                 /\ GetRiskLevelColor(back, s, l) = GetRiskLevelColor(riskMatrix, s, l)

\* A configuration with imported likelihood levels and a regenerated mapping of
\* three levels has been exported and imported again: it is saved as it was
C13_Witness ==
    /\ riskMatrix.likelihood = ImportedLikelihood(2)
    /\ riskMatrix.riskLevels = DefaultRiskLevels
    /\ Cardinality(DOMAIN riskMatrix.matrix) = 10
    /\ ExportedNow # {}
    /\ \E data \in ExportedNow :
         /\ LoadRiskMatrixFromJSON(riskMatrix, data) = riskMatrix
         /\ Cardinality({data.matrix[1][k] : k \in DOMAIN data.matrix[1]}) = 3
    /\ storage = Saved(hazards, riskMatrix)

\* C14: at most one re-layout is pending, however many requests were made, and
\* the re-layout that executes leaves none pending and a table that shows the
\* hazard list as it is when it executes
C14_RelayoutCoalesced ==
    /\ [](rerenderTimer <= 1)
    /\ [][rerenderTimer' < rerenderTimer =>
            /\ rerenderTimer' = 0
            /\ dom' = RenderTable(riskMatrix', hazards')]_vars

\* A level was picked on the first table and the configuration was replaced
\* before the timer fired: one re-layout is pending for both requests
C14_Witness ==
    /\ rerenderTimer = 1
    /\ hazards[1].title = "New hazard"
    /\ hazards[1].consequences[1].risk.severityLevel = "3"
    /\ dom[1].riskSev.segments[1].text = ""
    /\ riskMatrix.likelihood = ImportedLikelihood(2)
    /\ riskMatrix.riskLevels = ImportedRiskLevels

----------------------------------------------------------------------------
(* Editing the hazard list: init() on an empty store, then the buttons of   *)
(* the table, the toolbar and the timer.  The event loop runs a pending     *)
(* timeout once it is idle, which is weak fairness of the timer callback.   *)

OwnerTypes == {"cause", "consequence"}

\* The file imported while editing: a bare array of one hazard whose cause
\* has a prevention measure
EditedFile ==
    [isArray |-> TRUE, riskMatrix |-> None,
     hazards |-> << StoredHazard(1, << StoredCause(1, 1) >>, <<>>) >>]

NextEdit ==
    \/ AddHazard
    \/ \E h \in DOMAIN hazards : AddHazardAbove(h)
    \/ \E h \in DOMAIN hazards : AddHazardBelow(h)
    \/ \E h \in DOMAIN hazards : DuplicateHazard(h)
    \/ \E h \in DOMAIN hazards : RemoveHazard(h)
    \/ \E h \in DOMAIN hazards : AddCause(h)
    \/ \E h \in DOMAIN hazards : AddConsequence(h)
    \/ \E h \in DOMAIN hazards : \E i \in 1..MaxNodes : RemoveCause(h, i)
    \/ \E h \in DOMAIN hazards : \E i \in 1..MaxNodes : RemoveConsequence(h, i)
    \/ \E h \in DOMAIN hazards : \E t \in OwnerTypes : \E i \in 1..MaxNodes : AddMeasure(h, t, i)
    \/ \E h \in DOMAIN hazards : \E t \in OwnerTypes : \E i \in 1..MaxNodes :
         \E mi \in 0..MaxNodes : InsertMeasureBelow(h, t, i, mi)
    \/ \E h \in DOMAIN hazards : \E t \in OwnerTypes : \E i \in 1..MaxNodes :
         \E mi \in 0..MaxNodes : RemoveMeasure(h, t, i, mi)
    \/ \E h \in DOMAIN hazards : AddRecommendation(h)
    \/ \E h \in DOMAIN hazards : \E ri \in 1..MaxNodes : RemoveRecommendation(h, ri)
    \/ ClearAll
    \/ \E h \in DOMAIN hazards : CopyHazard(h)
    \/ \E h \in DOMAIN hazards : \E i \in 1..MaxNodes : CopyCause(h, i)
    \/ \E h \in DOMAIN hazards : \E i \in 1..MaxNodes : CopyConsequence(h, i)
    \/ \E h \in DOMAIN hazards : \E t \in OwnerTypes : \E i \in 1..MaxNodes :
         \E mi \in 0..MaxNodes : CopyMeasure(h, t, i, mi)
    \/ \E h \in DOMAIN hazards : \E ri \in 1..MaxNodes : CopyRecommendation(h, ri)
    \/ \E h \in DOMAIN hazards : PasteHazard(h)
    \/ \E h \in DOMAIN hazards : \E i \in 1..MaxNodes : PasteCause(h, i)
    \/ \E h \in DOMAIN hazards : \E i \in 1..MaxNodes : PasteConsequence(h, i)
    \/ \E h \in DOMAIN hazards : \E t \in OwnerTypes : \E i \in 1..MaxNodes :
         \E mi \in 0..MaxNodes : PasteMeasure(h, t, i, mi)
    \/ \E h \in DOMAIN hazards : \E ri \in 1..MaxNodes : PasteRecommendation(h, ri)
    \/ ImportJSON(EditedFile)
    \/ RerenderTick

SpecEdit == Init /\ [][NextEdit]_vars /\ WF_vars(RerenderTick)

----------------------------------------------------------------------------
(* Properties of the editing handlers *)

\* The firing of the timer, and the step of a handler that changes the hazard
\* list: every step that changes it but the firing of the timer, which stores
\* the computed scores
TimerFires == rerenderTimer' < rerenderTimer
EditsList == hazards' # hazards /\ ~TimerFires

\* The table on screen is the one renderTable builds from the current state
TableShowsList == rerenderTimer = 0 /\ dom = RenderTable(riskMatrix, hazards)

----------------------------------------------------------------------------
(* The height alignment: stored lists with uneven measure stacks, text     *)
(* edits, added and removed measures, resizes, font loads, and the passes   *)
(* they cause.                                                              *)

CauseTexts == {"", "Loss of containment"}

\* The arrays the store holds when the page loads: no causes or two causes of
\* which the first has the taller measure stack, and no consequence or one
\* with one or with MaxMeasures measures
AlignedLists ==
    { << StoredHazard(1, cs, qs) >> :
        cs \in { <<>>, << StoredCause(1, MaxMeasures), StoredCause(2, 0) >> },
        qs \in { <<>>, << StoredConsequence(1, 1, TRUE) >>,
                       << StoredConsequence(1, MaxMeasures, FALSE) >> } }

InitAlign == \E saved \in AlignedLists : InitFrom(saved)

NextAlign ==
    \/ \E h \in DOMAIN hazards : \E i \in 1..MaxItems : \E v \in CauseTexts :
         InputCauseText(h, i, v)
    \/ \E h \in DOMAIN hazards : \E t \in OwnerTypes : \E i \in 1..MaxItems : AddMeasure(h, t, i)
    \/ \E h \in DOMAIN hazards : \E t \in OwnerTypes : \E i \in 1..MaxItems :
         \E mi \in 0..MaxMeasures : RemoveMeasure(h, t, i, mi)
    \/ \E v \in 1..MaxLineHeight : Resize(v)
    \/ \E f \in 1..MaxLineHeight : FontsLoaded(f)
    \/ RerenderTick
    \/ AnimationFrame

SpecAlign == InitAlign /\ [][NextAlign]_vars

\* A step in which alignSegments runs: the animation frame callback, or the
\* listener of a resize that changed the viewport
PassRuns == (alignRequested /\ ~alignRequested') \/ surface'.viewport # surface.viewport

\* The largest of a non-empty set of heights
Tallest(heights) == CHOOSE t \in heights : \A u \in heights : u <= t

\* Every cause segment and its measures segment are forced to the larger of
\* their content heights; every consequence segment, its measures segment and
\* its four risk segments are forced to the largest of their content heights
HeightsAligned(d, surf, forced) ==
    \A h \in DOMAIN d :
        /\ \A i \in DOMAIN d[h].cause.segments :
              d[h].cause.segments[i].kind = "cause" =>
                 LET pair == {"cause", "causeMeasures"}
                     t == Tallest({ContentHeight(d[h][col].segments[i], surf) : col \in pair})
                 IN  \A col \in pair : forced[h][col][i] = t
        /\ \A i \in DOMAIN d[h].consequence.segments :
              d[h].consequence.segments[i].kind = "consequence" =>
                 LET group == SegmentColumns \ {"cause", "causeMeasures"}
                     t == Tallest({ContentHeight(d[h][col].segments[i], surf) : col \in group})
                 IN  \A col \in group : forced[h][col][i] = t

\* C16: after any alignment pass, for every hazard and index i the cause
\* segment i and the cause-measures segment i have the same forced height, the
\* maximum of their natural heights, and the consequence segment i, the
\* consequence-measures segment i and the four risk segments i have the same
\* forced height, the maximum of their natural heights; heights forced by
\* earlier passes do not count.
C16_PassAlignsHeights == [][PassRuns => HeightsAligned(dom', surface', minHeight')]_vars

\* A pass has run after a text edit, on the wide viewport: the cause with two
\* measures is forced to two lines, the consequence row to one
C16_Witness ==
    /\ ~alignRequested
    /\ surface = InitialSurface
    /\ Len(hazards) = 1
    /\ Len(hazards[1].causes) = 2 /\ Len(hazards[1].consequences) = 1
    /\ hazards[1].causes[1].text = "Loss of containment"
    /\ minHeight[1].cause = <<2, 1>>
    /\ minHeight[1].causeMeasures = <<2, 1>>
    /\ minHeight[1].riskScore = <<1>>

\* A step after which heights may be stale: a handler changed the content of
\* the list, the viewport changed, or a font finished loading
HeightsMayChange == hazards' # hazards \/ surface' # surface

\* An alignment pass is on its way: the animation frame callback is pending,
\* or the timer that renders and requests one is
PassDue == alignRequested \/ rerenderTimer > 0

\* C17: the height-alignment pass reruns after a change of a block's content
\* (text edit, add, remove), after a viewport resize and after a font or image
\* finishes loading: the step runs the pass, or leaves one on its way.
C17_PassRerunsOnChange == [][HeightsMayChange => (PassRuns \/ PassDue')]_vars

----------------------------------------------------------------------------
(* Properties of the risk colours of the export *)

\* The colour pass filled the risk-score cell of consequence i of hazard h, all
\* its rows, with the evaluator's colour
ScoreCellColoured(h, i) ==
    LET block == Get(sheet)[h]
        risk == hazards[h].consequences[i].risk
    IN  /\ block.riskFills[i].rows = block.riskCells[i][4].row..block.riskCells[i][4].endRow
        /\ block.riskFills[i].color =
              GetRiskLevelColor(riskMatrix, risk.severityLevel, risk.likelihoodLevel)

\* Both levels of the consequence are set and the evaluator resolves a colour
ColourResolves(h, i) ==
    LET risk == hazards[h].consequences[i].risk
    IN  /\ risk.severityLevel # "" /\ risk.likelihoodLevel # ""
        /\ GetRiskLevelColor(riskMatrix, risk.severityLevel, risk.likelihoodLevel) # ""

\* C18: in the exported main sheet the risk-score cells of a consequence carry
\* the evaluator's colour if and only if both its severityLevel and its
\* likelihoodLevel are set and a colour resolves for the pair.
C18_ColouredIffRated ==
    IsSome(sheet) =>
        \A h \in DOMAIN hazards : \A i \in DOMAIN hazards[h].consequences :
            ScoreCellColoured(h, i) <=> ColourResolves(h, i)

----------------------------------------------------------------------------
(* The export next to the other callbacks: every behaviour of the library,  *)
(* and level selects, recommendation buttons and the timer running while a  *)
(* writeBuffer() is pending.                                                *)

NextExport ==
    \/ \E outcome \in ExportOutcomes : ExportToExcelWith(outcome)
    \/ WriteBufferResolved
    \/ WriteBufferRejected
    \/ \E h \in DOMAIN hazards : \E i \in 1..MaxItems : ChangeSeverityLevel(h, i, "3")
    \/ \E h \in DOMAIN hazards : \E i \in 1..MaxItems : ChangeLikelihoodLevel(h, i, "D")
    \/ \E h \in DOMAIN hazards : AddRecommendation(h)
    \/ \E h \in DOMAIN hazards : \E ri \in 1..MaxItems : RemoveRecommendation(h, ri)
    \/ RerenderTick

SpecExport == Init /\ [][NextExport]_vars

\* The step of an exportToExcel call that reached writeBuffer(), and the
\* workbook it passed
ReachesWriteBuffer ==
    IsSome(sheet') /\ (IsSome(download'.file) \/ (writing = None /\ IsSome(writing')))
Passed == IF IsSome(download.file) THEN Get(download.file) ELSE Get(writing)

\* The step in which a pending writeBuffer() rejects
WriteRejects == IsSome(writing) /\ writing' = None /\ download'.file = None

\* C19: a failure while building the summary sheet does not keep the
\* recommendations sheet from being built nor the workbook, with the complete
\* primary sheet, from being serialized, and a failure in the recommendations
\* sheet does not abort the export either: 'Excel export failed' is shown
\* only when writeBuffer() rejects, and every workbook passed to writeBuffer()
\* holds the complete primary sheet and each auxiliary sheet complete unless
\* its own construction threw; no step that exports, alerts or hands over a
\* file changes the hazard list or the risk matrix.
C19_AuxiliaryFailureContained ==
    [][/\ download'.alert = "Excel export failed" => WriteRejects
       /\ ReachesWriteBuffer =>
             /\ Passed'.main = ExportSheet(riskMatrix, hazards)
             /\ Passed'.summary \in {Failed, Built(SummarySheet(riskMatrix, hazards))}
             /\ Passed'.recommendations \in {Failed, Built(RecommendationsSheet(hazards))}
       /\ (download' # Quiet \/ writing' # writing) =>
             hazards' = hazards /\ riskMatrix' = riskMatrix]_vars

\* A file whose summary sheet failed: the primary sheet holds the rated
\* consequence and the recommendations sheet its two rows
C19_Witness ==
    /\ IsSome(download.file)
    /\ Passed.summary = Failed
    /\ Passed.recommendations = Built(RecommendationsSheet(hazards))
    /\ Len(hazards[1].recommendations) = 2
    /\ Passed.main = ExportSheet(riskMatrix, hazards)
    /\ Passed.main[1].riskFills[1].color # ""

\* C20: the exported workbook reflects the hazard list as it was when export
\* was invoked: the workbook passed to writeBuffer() is built from the list of
\* that moment, no callback running while writeBuffer() is pending changes it,
\* the file handed over when it resolves is that workbook, and the export
\* never writes to the hazard list.
C20_ExportsSnapshot ==
    [][/\ ReachesWriteBuffer =>
             Passed' = Get(BuildWorkbook(riskMatrix, hazards,
                          [Unfailing EXCEPT !.summary = Passed'.summary # Failed,
                                            !.recommendations = Passed'.recommendations # Failed]))
       /\ (IsSome(writing) /\ IsSome(writing')) => writing' = writing
       /\ (IsSome(writing) /\ writing' = None /\ IsSome(download'.file)) =>
             Get(download'.file) = Get(writing)
       /\ (IsSome(sheet') \/ IsSome(download'.file) \/ writing' # writing) => hazards' = hazards]_vars

\* A file handed over after the list changed while writeBuffer() was pending:
\* it shows no recommendation and an unrated consequence, the list holds a
\* recommendation more and a rated consequence
C20_Witness ==
    /\ IsSome(download.file)
    /\ writing = None /\ sheet = None
    /\ Len(hazards) = 1
    /\ Len(Passed.main[1].recoCell.value) = 1
    /\ Len(hazards[1].recommendations) = 2
    /\ Passed.main[1].riskCells[1][2].value = ""
    /\ hazards[1].consequences[1].risk.severityLevel = "3"

----------------------------------------------------------------------------
(* Persistence: what init() makes of the store, and handlers on a store     *)
(* that may refuse to take the document                                      *)

\* A handler of the hazard list whose save the store takes or refuses
MutateWith(hs, accepted) ==
    /\ hazards' = hs
    /\ ScheduleSaveAndRerenderWith(hs, riskMatrix, accepted)
    /\ sheet' = None
    /\ download' = Quiet
    /\ UNCHANGED <<riskMatrix, clipboard, generated, dom,
                   surface, minHeight, alignRequested, writing>>

\* onblur of the title input of hazard h
BlurHazardTitleWith(h, accepted) ==
    /\ TableCurrent /\ h \in DOMAIN dom
    /\ MutateWith(hazards, accepted)

\* 'Remove' of hazard h
RemoveHazardWith(h, accepted) ==
    /\ TableCurrent /\ h \in DOMAIN dom
    /\ MutateWith(RemoveAt(hazards, h), accepted)

\* #clear-all, confirmed
ClearAllWith(accepted) == MutateWith(<<>>, accepted)

\* What the key can hold when the page loads: nothing, text that does not
\* parse, a legacy array, or the object an earlier session saved
StoredDocs(list) ==
    { None, Some(Unparsable), Some(ArrayDoc(list)),
      Saved(list, UpdateRiskMatrix(InitialRiskMatrix)) }

InitPersist == \E list \in StoredLists : \E stored \in StoredDocs(list) : InitStored(stored)

NextPersist ==
    \/ \E h \in DOMAIN hazards, accepted \in BOOLEAN : BlurHazardTitleWith(h, accepted)
    \/ \E h \in DOMAIN hazards, accepted \in BOOLEAN : RemoveHazardWith(h, accepted)
    \/ \E accepted \in BOOLEAN : ClearAllWith(accepted)
    \/ RerenderTick

SpecPersist == InitPersist /\ [][NextPersist]_vars

\* A handler ran and the store kept what it held: the save was refused
SaveRefused ==
    /\ ~TimerFires
    /\ storage' = storage
    /\ storage # Saved(hazards', riskMatrix')

\* C21: persist.load returns an empty list when the key is absent or its text
\* does not parse (init then works on the starter hazard), and persist.save
\* never propagates an error: a handler whose save the store refuses runs to
\* its end (the re-render is armed) and the hazard list and risk matrix in
\* memory are what the handler left, not touched by the failed save
C21_LoadAndSaveContained ==
    /\ (storage = None \/ storage = Some(Unparsable))
           => hazards = WithComputedScores(riskMatrix, SeedHazards)
    /\ [][SaveRefused =>
            /\ rerenderTimer' = 1
            /\ riskMatrix' = riskMatrix
            /\ \/ hazards' = hazards
               \/ hazards' = <<>>
               \/ \E h \in DOMAIN hazards : hazards' = RemoveAt(hazards, h)]_vars

\* The store held unparsable text at load, a later Clear all could not be
\* saved, and the handler still armed the re-render
C21_Witness ==
    /\ storage = Some(Unparsable)
    /\ hazards = <<>>
    /\ rerenderTimer = 1

\* C25: persistence round trip.  When the store holds what an autosave wrote
\* for the current, non-empty hazard list, initializing again restores exactly
\* that list and not the starter hazard
C25_SavedListRestored ==
    (Len(hazards) > 0 /\ storage = Saved(hazards, riskMatrix))
        => WithComputedScores(UpdateRiskMatrix(InitialRiskMatrix), InitHazards(storage)) = hazards

----------------------------------------------------------------------------
(* Imports of files that are not what the handlers expect *)

\* A hazard document with no hazards property
NoHazardsDoc == [isArray |-> FALSE, riskMatrix |-> None]

\* Files #import-json refuses: text that does not parse, null, an object
\* without hazards
RejectedDocs == { Unparsable, JSONNull, NoHazardsDoc }

\* Files #import-json takes, and one whose hazards is the empty array
AcceptedDocs == JSONDocs \cup { [isArray |-> FALSE, hazards |-> <<>>, riskMatrix |-> None] }

\* Risk-matrix files whose list of risk levels, or of likelihood levels, holds
\* null, and the file that is null
BrokenRiskMatrixDocs ==
    { JSONNull,
      [likelihoodDescriptions |-> Some(ImportedLikelihood(MaxImportLevels)),
       severityDescriptions |-> None,
       riskLevelDescriptions |-> Some(<< JSONNull >>), matrix |-> None],
      [likelihoodDescriptions |-> Some(<< JSONNull >>),
       severityDescriptions |-> None,
       riskLevelDescriptions |-> Some(ImportedRiskLevels), matrix |-> None] }

NextImport ==
    \/ \E data \in AcceptedDocs \cup RejectedDocs : ImportJSON(data)
    \/ \E data \in RiskMatrixDocs \cup BrokenRiskMatrixDocs : ImportRiskMatrix(data)
    \/ LoadDefaultMatrix
    \/ \E h \in DOMAIN hazards : RemoveHazard(h)
    \/ RerenderTick

SpecImport == Init /\ [][NextImport]_vars

C27_FailedImportAtomic ==
    [][download'.alert \in {"Failed to import JSON", "Failed to import risk matrix JSON"} =>
            /\ hazards' = hazards
            /\ riskMatrix' = riskMatrix]_vars

----------------------------------------------------------------------------
(* Hazards with missing arrays *)

\* An imported hazard with the named properties only
SparseHazard(fields) ==
    [f \in {"id", "title", "description"} \cup fields |->
        IF f = "id" THEN 1
        ELSE IF f = "title" THEN "Imported"
        ELSE IF f = "description" THEN ""
        ELSE IF f = "causes" THEN << [id |-> 2, text |-> ""] >>
        ELSE IF f = "consequences" THEN << [id |-> 3, text |-> "", risk |-> RatedRisk] >>
        ELSE <<>>]

\* Files whose hazard lacks one of its lists, and one whose cause and
\* consequence lack their measure arrays
SparseDocs ==
    { [isArray |-> TRUE, hazards |-> << SparseHazard(fields) >>, riskMatrix |-> None] :
        fields \in { {"consequences", "recommendations"}, {"causes", "recommendations"},
                     {"causes", "consequences"}, {"causes", "consequences", "recommendations"} } }

\* The hazards whose row, built from the list as it is, is on the page
ShownHazards == {h \in DOMAIN hazards : TableCurrent /\ h \in DOMAIN dom}

NextSparse ==
    \/ \E data \in SparseDocs \cup JSONDocs : ImportJSON(data)
    \/ \E h \in ShownHazards : \E i \in 1..Len(hazards[h].consequences) :
         \E v \in SeverityChoices : ChangeSeverityLevel(h, i, v)
    \/ \E h \in DOMAIN hazards : RemoveHazard(h)
    \/ LoadDefaultMatrix
    \/ RerenderTick
    \/ ExportToExcel

SpecSparse == Init /\ [][NextSparse]_vars

\* The list with every missing array, of hazards, causes and consequences,
\* replaced by the empty array
WithEmptyLists(hs) ==
    WithMeasureLists(
        [h \in 1..Len(hs) |->
            [f \in DOMAIN hs[h] \cup {"causes", "consequences", "recommendations"} |->
                IF f \in DOMAIN hs[h] THEN hs[h][f] ELSE <<>>]])

Exports == IsSome(download'.file) \/ download'.alert = "Excel export failed"

\* C23: a hazard whose causes, consequences, recommendations or measure arrays
\* are missing is treated as having empty lists: the interactive render builds
\* the table, and the export builds the main worksheet with the row count and
\* allocation, of the list with the missing arrays read as empty
C23_MissingListsReadAsEmpty ==
    /\ [][TimerFires => dom' = RenderTable(riskMatrix, WithEmptyLists(hazards))]_vars
    /\ [][Exports => sheet' = Some(ExportSheet(riskMatrix, WithEmptyLists(hazards)))]_vars

\* The part that holds: missing measure arrays alone are read as empty by the
\* render and by the export
MeasureListsReadAsEmpty ==
    /\ [][TimerFires /\ ~HazardListThrows(hazards) =>
            dom' = RenderTable(riskMatrix, WithEmptyLists(hazards))]_vars
    /\ [][Exports /\ ~HazardListThrows(hazards) =>
            sheet' = Some(ExportSheet(riskMatrix, WithEmptyLists(hazards)))]_vars

----------------------------------------------------------------------------
(* Copies: duplicate, copy and paste in a session that loaded its list *)

\* The loaded list: one hazard with a cause and its prevention measure
ClonedLists == { << StoredHazard(20, << StoredCause(1, 1) >>, <<>>) >> }

InitClone == \E list \in ClonedLists : InitFrom(list)

NextClone ==
    \/ \E h \in DOMAIN hazards : DuplicateHazard(h)
    \/ \E h \in DOMAIN hazards : CopyHazard(h)
    \/ \E h \in DOMAIN hazards : PasteHazard(h)
    \/ \E h \in DOMAIN hazards : \E i \in 1..MaxNodes : CopyCause(h, i)
    \/ \E h \in DOMAIN hazards : \E i \in 1..MaxNodes : PasteCause(h, i)
    \/ \E h \in DOMAIN hazards : \E i \in 1..MaxNodes : CopyMeasure(h, "cause", i, 0)
    \/ \E h \in DOMAIN hazards : \E i \in 1..MaxNodes : PasteMeasure(h, "cause", i, 0)
    \/ \E h \in ShownHazards : \E v \in CauseTexts : InputCauseText(h, 1, v)
    \/ \E h \in DOMAIN hazards : RemoveCause(h, 1)
    \/ RerenderTick

SpecClone == InitClone /\ [][NextClone]_vars

\* The identifiers the clipboard's item holds
ClipboardIds ==
    IF clipboard = None THEN {}
    ELSE LET item == Get(clipboard)
         IN  IF item.type = "hazard" THEN HazardIds(item.data)
             ELSE IF item.type = "cause" THEN CauseIds(item.data)
             ELSE {item.data.id}

----------------------------------------------------------------------------
(* Identifiers *)

\* C28: with generateId returning a value no earlier call returned, the
\* identifiers of the hazards, causes, consequences, measures and
\* recommendations of the hazard list are pairwise distinct: the list holds as
\* many identifiers as it holds entities
C28_IdsDistinct == Cardinality(IdsIn(hazards)) = Nodes(hazards)

----------------------------------------------------------------------------
(* The risk configuration after imports *)

\* C29: every pair of a level of the current likelihood list and a level of
\* the current severity list has a cell in the mapping, and the cell holds a
\* level of the current risk-level list
C29_EveryPairResolves ==
    \A l \in 1..Len(riskMatrix.likelihood) : \A s \in 1..Len(riskMatrix.severity) :
        /\ Mapped(riskMatrix, riskMatrix.severity[s].id, riskMatrix.likelihood[l].id)
        /\ \E k \in 1..Len(riskMatrix.riskLevels) :
             riskMatrix.riskLevels[k] =
                 Get(riskMatrix.matrix[Key(riskMatrix.likelihood[l].id, riskMatrix.severity[s].id)])

\* C30: every consequence's severity level, when set, is the id of a level of
\* the current severity list, and its likelihood level, when set, is the id of
\* a level of the current likelihood list
C30_LevelsInCurrentLists ==
    \A h \in DOMAIN hazards : \A i \in 1..Len(hazards[h].consequences) :
        /\ hazards[h].consequences[i].risk.severityLevel \in Options(riskMatrix.severity)
        /\ hazards[h].consequences[i].risk.likelihoodLevel \in Options(riskMatrix.likelihood)

----------------------------------------------------------------------------
(* Clicks on the displayed table.  The buttons of a row are the ones the    *)
(* latest renderTable built: their handlers hold the row's hazardIndex and  *)
(* rowIndex, and renderCauseCell's 'Remove' holds the hazard object.  A     *)
(* click is a task of its own, so it can run after another click and before *)
(* the timer of scheduleSaveAndRerender rebuilds the table.                 *)

\* Array.prototype.splice(i, 1) and splice(i, 0, x) with a start that may lie
\* past the end: nothing is removed, and the insertion is an append
SpliceOut(s, i) == IF i <= Len(s) THEN RemoveAt(s, i) ELSE s
SpliceIn(s, i, x) == InsertAt(s, IF i <= Len(s) THEN i ELSE Len(s) + 1, x)

\* A handler that threw before it changed anything; idsTaken calls of
\* generateId came first
HandlerThrew(idsTaken) ==
    /\ generated' = generated + idsTaken
    /\ sheet' = None
    /\ download' = Quiet
    /\ UNCHANGED <<hazards, riskMatrix, storage, rerenderTimer, clipboard, dom,
                   surface, minHeight, alignRequested, writing>>

\* 'Remove' of the row at position h: state.hazards.splice(hazardIndex, 1)
ClickRemoveHazard(h) ==
    /\ h \in DOMAIN dom
    /\ Mutate(SpliceOut(hazards, h))

\* 'Add below' of the row at position h
ClickAddHazardBelow(h) ==
    /\ h \in DOMAIN dom /\ CanAdd(1)
    /\ MutateWithId(SpliceIn(hazards, h + 1, CreateHazard(GenerateId)))

\* 'Duplicate' of the row at position h: deepClone(state.hazards[hazardIndex])
\* throws on undefined
ClickDuplicateHazard(h) ==
    /\ h \in DOMAIN dom
    /\ IF h \in DOMAIN hazards
       THEN /\ CanAdd(Nodes(<<hazards[h]>>))
            /\ LET clone == DeepClone(hazards[h])
               IN  MutateWithId(InsertAt([hazards EXCEPT ![h] = OriginalAfter(@, clone)],
                                         h + 1, Renewed(clone)))
       ELSE HandlerThrew(0)

\* The positions in state.hazards of the hazard object row h was built from
PositionsOfRowHazard(h) == {k \in DOMAIN hazards : hazards[k].id = dom[h].objects.hazard}

\* 'Remove' of cause cell i of row h: hazard.causes.splice(rowIndex, 1) on the
\* hazard object of the row, whether or not the list still holds it
ClickRemoveCause(h, i) ==
    /\ h \in DOMAIN dom /\ i \in DOMAIN dom[h].objects.causes
    /\ Mutate([k \in DOMAIN hazards |->
                  IF k \in PositionsOfRowHazard(h)
                  THEN [hazards[k] EXCEPT !.causes = SpliceOut(@, i)]
                  ELSE hazards[k]])

\* 'Copy' of cause cell i of row h: copyItem reads state.hazards[hazardIndex]
\* and its causes[rowIndex]; a missing hazard or cause makes it throw
ClickCopyCause(h, i) ==
    /\ h \in DOMAIN dom /\ i \in DOMAIN dom[h].objects.causes
    /\ IF h \in DOMAIN hazards /\ i \in DOMAIN hazards[h].causes
       THEN SetClipboard("cause", "", hazards[h].causes[i])
       ELSE HandlerThrew(0)

\* 'Paste' of cause cell i of row h: pasteItem clones the clipboard, takes an
\* id and splices into state.hazards[hazardIndex].causes, which throws when
\* the hazard is missing
ClickPasteCause(h, i) ==
    /\ h \in DOMAIN dom /\ i \in DOMAIN dom[h].objects.causes
    /\ Holds("cause", "") /\ CanAdd(1 + Len(Get(clipboard).data.preventionMeasures))
    /\ IF h \in DOMAIN hazards
       THEN Paste([hazards EXCEPT ![h].causes = SpliceIn(@, i + 1, PasteClone)])
       ELSE HandlerThrew(1)

\* Two hazards, the first with two causes
StaleLists ==
    { << StoredHazard(100, << StoredCause(1, 0), StoredCause(2, 0) >>, <<>>),
         StoredHazard(200, <<>>, <<>>) >> }

InitStale == \E list \in StaleLists : InitFrom(list)

NextStale ==
    \/ \E h \in DOMAIN dom : ClickRemoveHazard(h)
    \/ \E h \in DOMAIN dom : generated < MaxClickIds /\ ClickAddHazardBelow(h)
    \/ \E h \in DOMAIN dom : generated < MaxClickIds /\ ClickDuplicateHazard(h)
    \/ \E h \in DOMAIN dom : \E i \in DOMAIN dom[h].objects.causes : ClickRemoveCause(h, i)
    \/ \E h \in DOMAIN dom : \E i \in DOMAIN dom[h].objects.causes : ClickCopyCause(h, i)
    \/ \E h \in DOMAIN dom : \E i \in DOMAIN dom[h].objects.causes :
         generated < MaxClickIds /\ ClickPasteCause(h, i)
    \/ RerenderTick

SpecStale == InitStale /\ [][NextStale]_vars

\* The ids of the hazards of a list, and of the causes of a hazard, in order
HazardIdSeq(hs) == [k \in 1..Len(hs) |-> hs[k].id]
CauseIdSeq(hazard) == [j \in 1..Len(hazard.causes) |-> hazard.causes[j].id]
Without(ids, id) == SelectSeq(ids, LAMBDA x : x # id)

Listed(ids, id) == \E j \in 1..Len(ids) : ids[j] = id

\* In a list of ids the id newId, where it occurs, directly follows shownId
DirectlyBelow(ids, shownId, newId) ==
    \A j \in 1..Len(ids) : ids[j] = newId => (j > 1 /\ ids[j - 1] = shownId)

\* The hazard row h shows and the cause its cell i shows, by id
ShownHazard(h) == dom[h].objects.hazard
ShownCause(h, i) == dom[h].objects.causes[i]

\* 'Remove' of a row removes the hazard the row shows and no other
RemovesShownHazard(h) ==
    HazardIdSeq(hazards') = Without(HazardIdSeq(hazards), ShownHazard(h))

\* 'Add below' and 'Duplicate' of a row put the new hazard directly below the
\* hazard the row shows, and the duplicate is a copy of that hazard
AddsBelowShownHazard(h) ==
    Listed(HazardIdSeq(hazards), ShownHazard(h)) =>
        DirectlyBelow(HazardIdSeq(hazards'), ShownHazard(h), GenerateId)

DuplicatesShownHazard(h) ==
    \A k \in DOMAIN hazards' :
        hazards'[k].id = GenerateId =>
            /\ k > 1 /\ hazards'[k - 1].id = ShownHazard(h)
            /\ hazards'[k] = [hazards'[k - 1] EXCEPT !.id = GenerateId]

\* 'Remove' of a cause cell removes the cause the cell shows from the hazard
\* of its row, and no other cause
RemovesShownCause(h, i) ==
    /\ HazardIdSeq(hazards') = HazardIdSeq(hazards)
    /\ \A k \in DOMAIN hazards :
          CauseIdSeq(hazards'[k]) =
              IF hazards[k].id = ShownHazard(h)
              THEN Without(CauseIdSeq(hazards[k]), ShownCause(h, i))
              ELSE CauseIdSeq(hazards[k])

\* 'Paste' of a cause cell puts the clone into the hazard of its row, directly
\* below the cause the cell shows
PastesBelowShownCause(h, i) ==
    \A k \in DOMAIN hazards' :
        Listed(CauseIdSeq(hazards'[k]), GenerateId) =>
            /\ hazards'[k].id = ShownHazard(h)
            /\ Listed(CauseIdSeq(hazards[k]), ShownCause(h, i)) =>
                  DirectlyBelow(CauseIdSeq(hazards'[k]), ShownCause(h, i), GenerateId)

\* C26: a click on a button of the displayed table, also one that runs before
\* the pending re-layout, acts on the entity its row or cell shows: 'Remove'
\* removes the shown hazard or cause and no other, 'Add below' and 'Duplicate'
\* put the new hazard directly below the shown hazard, 'Paste' puts the clone
\* directly below the shown cause
C26_ClickActsOnShownEntity ==
    [][\A h \in DOMAIN dom :
          /\ ClickRemoveHazard(h) => RemovesShownHazard(h)
          /\ ClickAddHazardBelow(h) => AddsBelowShownHazard(h)
          /\ ClickDuplicateHazard(h) => DuplicatesShownHazard(h)
          /\ \A i \in DOMAIN dom[h].objects.causes :
                /\ ClickRemoveCause(h, i) => RemovesShownCause(h, i)
                /\ ClickPasteCause(h, i) => PastesBelowShownCause(h, i)]_vars

\* The same for clicks on a table that shows the current list
ClickOnCurrentTableActsOnShownEntity ==
    [][TableCurrent =>
          \A h \in DOMAIN dom :
             /\ ClickRemoveHazard(h) => RemovesShownHazard(h)
             /\ ClickAddHazardBelow(h) => AddsBelowShownHazard(h)
             /\ ClickDuplicateHazard(h) => DuplicatesShownHazard(h)
             /\ \A i \in DOMAIN dom[h].objects.causes :
                   /\ ClickRemoveCause(h, i) => RemovesShownCause(h, i)
                   /\ ClickPasteCause(h, i) => PastesBelowShownCause(h, i)]_vars

====
